---- MODULE Spec2Model ----
(***************************************************************************)
(* flydoc: the parser of flydocparse.c as a state machine.                 *)
(*                                                                         *)
(* Text is modelled at character level.  A string is a sequence of         *)
(* one-character strings, a text (a stripped comment header, a markdown    *)
(* file, a prose body) is a sequence of lines, each line a string without  *)
(* its line ending; every line is taken to end in a line ending.  A        *)
(* `const char *` into a text is a line index (Len + 1 is the terminating  *)
(* NUL), a pointer into a line is a column (Len + 1 is the line ending).   *)
(* A pointer that may be NULL, and an optional string, is a sequence of    *)
(* length 0 (NULL) or 1 (the value).  The grave accent (code 96), which    *)
(* the module's lexical syntax cannot hold, is written "GRAVE".            *)
(*                                                                         *)
(* Let([x \in {v} |-> e]) is e with x standing for the value v: a local    *)
(* variable of the code that is assigned once.                             *)
(***************************************************************************)
EXTENDS Integers, Sequences, FiniteSets, TLC

Let(f) == f[CHOOSE x \in DOMAIN f : TRUE]

NULL == << >>

Ptr(x) == << x >>

Deref(p) == p[1]

Min(a, b) == IF a < b THEN a ELSE b

Range(s) == { s[i] : i \in 1..Len(s) }

\* first column >= i holding character c, 0 when there is none
IndexOf(line, c, i) ==
  IF \E j \in i..Len(line) : line[j] = c
  THEN CHOOSE j \in i..Len(line) : line[j] = c /\ \A k \in i..(j - 1) : line[k] # c
  ELSE 0

\* last column <= i holding character c, 0 when there is none
LastIndexOf(s, c, i) ==
  IF \E j \in 1..i : s[j] = c
  THEN CHOOSE j \in 1..i : s[j] = c /\ \A k \in (j + 1)..i : s[k] # c
  ELSE 0

(***************************************************************************)
(* Characters and the C library                                            *)
(***************************************************************************)
\* the printable ASCII characters, from code 32 on
Ascii == <<" ","!","\"","#","$","%","&","'","(",")","*","+",",","-",".","/","0","1","2","3","4","5","6","7",
    "8","9",":",";","<","=",">","?","@","A","B","C","D","E","F","G","H","I","J","K","L","M","N","O","P","Q",
    "R","S","T","U","V","W","X","Y","Z","[","\\","]","^","_","GRAVE","a","b","c","d","e","f","g","h","i","j",
    "k","l","m","n","o","p","q","r","s","t","u","v","w","x","y","z","{","|","}","~">>

szUpper == <<"A","B","C","D","E","F","G","H","I","J","K","L","M","N","O","P","Q","R","S","T","U","V","W","X",
    "Y","Z">>

szLower == <<"a","b","c","d","e","f","g","h","i","j","k","l","m","n","o","p","q","r","s","t","u","v","w","x",
    "y","z">>

szDigits == <<"0","1","2","3","4","5","6","7","8","9">>

\* the character code of c (a tab is code 9)
Ord(c) == IF c = "\t" THEN 9 ELSE 31 + IndexOf(Ascii, c, 1)

tolower(c) == Let([i \in {IndexOf(szUpper, c, 1)} |-> IF i > 0 THEN szLower[i] ELSE c])

isspace(c) == c \in {" ", "\t"}

isalpha(c) == \E i \in 1..Len(szUpper) : c = szUpper[i] \/ c = szLower[i]

isdigit(c) == IndexOf(szDigits, c, 1) > 0

RECURSIVE StrCmpFrom(_, _, _, _)
\* sign of the first difference of a and b from index i on; fold = case-insensitive
StrCmpFrom(a, b, i, fold) ==
  IF i > Len(a) /\ i > Len(b) THEN 0
  ELSE IF i > Len(a) THEN -1
  ELSE IF i > Len(b) THEN 1
  ELSE Let([c \in {[j \in 1..2 |->
       Ord(IF fold THEN tolower(<< a[i], b[i] >>[j]) ELSE << a[i], b[i] >>[j])]} |->
            IF c[1] < c[2] THEN -1
                       ELSE IF c[1] > c[2] THEN 1
                       ELSE StrCmpFrom(a, b, i + 1, fold)])

strcmp(a, b) == StrCmpFrom(a, b, 1, FALSE)

strcasecmp(a, b) == StrCmpFrom(a, b, 1, TRUE)

(***************************************************************************)
(* FlyStr line and argument helpers, as flydocparse.c uses them.  A        *)
(* position in a line is a column 1..Len(line)+1.                          *)
(***************************************************************************)
\* faulty variant of IsSpaceAt: what follows the token is not looked at
AnyAt(line, i) == TRUE

\* the character at column i; the line ending counts as white space
IsSpaceAt(line, i) == i > Len(line) \/ isspace(line[i])

RECURSIVE FlyStrSkipWhite(_, _)
FlyStrSkipWhite(line, i) ==
  IF i <= Len(line) /\ isspace(line[i]) THEN FlyStrSkipWhite(line, i + 1) ELSE i

RECURSIVE FlyStrArgLen(_, _)
\* number of non-blank characters from column i
FlyStrArgLen(line, i) ==
  IF i <= Len(line) /\ ~isspace(line[i]) THEN 1 + FlyStrArgLen(line, i + 1) ELSE 0

\* column of the argument after the one at column i (Len + 1 when none)
FlyStrArgNext(line, i) == FlyStrSkipWhite(line, i + FlyStrArgLen(line, i))

IsCNameChar(c) == isalpha(c) \/ isdigit(c) \/ c = "_"

RECURSIVE CNameTail(_, _)
CNameTail(line, i) ==
  IF i <= Len(line) /\ IsCNameChar(line[i]) THEN 1 + CNameTail(line, i + 1) ELSE 0

\* length of the C identifier at column i, 0 when there is none
FlyStrCNameLen(line, i) ==
  IF i <= Len(line) /\ ~isdigit(line[i]) THEN CNameTail(line, i) ELSE 0

FlyStrLineIsBlank(line) == FlyStrSkipWhite(line, 1) > Len(line)

\* the rest of the line from column i
FlyStrToLineEnd(line, i) == SubSeq(line, i, Len(line))

FlyStrAllocN(line, i, n) == SubSeq(line, i, i + n - 1)

StartsWith(line, tok) == Len(line) >= Len(tok) /\ SubSeq(line, 1, Len(tok)) = tok

RECURSIVE FlyStrLineSkipBlank(_, _)
\* first line at or after index i that is not blank (Len + 1 when none)
FlyStrLineSkipBlank(text, i) ==
  IF i <= Len(text) /\ FlyStrLineIsBlank(text[i]) THEN FlyStrLineSkipBlank(text, i + 1) ELSE i

(***************************************************************************)
(* Keyword recognizer                                                      *)
(***************************************************************************)
\* the table of FlyDocIsKeyword, in the order of flyDocKeyword_t
aszKeywords == <<
  <<"@","c","l","a","s","s">>,
  <<"@","c","o","l","o","r">>,
  <<"@","d","e","f","g","r","o","u","p">>,
  <<"@","e","x","a","m","p","l","e">>,
  <<"@","f","n">>,
  <<"@","f","o","n","t">>,
  <<"@","i","n","c","l","a","s","s">>,
  <<"@","i","n","g","r","o","u","p">>,
  <<"@","l","o","g","o">>,
  <<"@","m","a","i","n","p","a","g","e">>,
  <<"@","p","a","r","a","m">>,
  <<"@","r","e","t","u","r","n">>,
  <<"@","r","e","t","u","r","n","s">>,
  <<"@","v","e","r","s","i","o","n">> >>

\* flyDocKeyword_t: the n-th name is the keyword of the n-th table entry
flyDocKeyword_t == << "CLASS", "COLOR", "DEFGROUP", "EXAMPLE", "FN", "FONT", "INCLASS", "INGROUP",
                      "LOGO", "MAINPAGE", "PARAM", "RETURN", "RETURNS", "VERSION", "UNKNOWN" >>

RECURSIVE KeywordScan(_, _, _)
\* the for loop of FlyDocIsKeyword over the table: the index of the first entry
\* that is a prefix of the line and is followed by white space; the index after
\* the table (FLYDOC_KEYWORD_UNKNOWN) when there is none
KeywordScan(table, szLine, i) ==
  IF i > Len(table) THEN i
  ELSE IF StartsWith(szLine, table[i]) /\ IsSpaceAt(szLine, Len(table[i]) + 1) THEN i
  ELSE KeywordScan(table, szLine, i + 1)

\* fIsKeyword: the return value is not NULL; keyword: *pKeyword; arg: the column
\* of the argument after the keyword (the return value)
FlyDocIsKeyword(szLine) ==
  IF Len(szLine) > 0 /\ szLine[1] = "@"
  THEN [fIsKeyword |-> TRUE, keyword |-> flyDocKeyword_t[KeywordScan(aszKeywords, szLine, 1)],
        arg |-> FlyStrArgNext(szLine, 1)]
  ELSE [fIsKeyword |-> FALSE, keyword |-> "UNKNOWN", arg |-> 0]

FlyDocIsSection(keyword) == keyword \in {"CLASS", "DEFGROUP", "FN", "MAINPAGE"}

FlyDocIsKeywordProto(keyword) == keyword \in {"PARAM", "RETURN", "RETURNS", "UNKNOWN"}

\* the line is a section-opening keyword line
IsSectionLine(szLine) ==
  Let([k \in {FlyDocIsKeyword(szLine)} |-> k.fIsKeyword /\ FlyDocIsSection(k.keyword)])

RECURSIVE FlyDocSectionEnd(_, _)
\* index of the next section-opening line at or after i, Len + 1 when none
FlyDocSectionEnd(text, i) ==
  IF i > Len(text) THEN i
  ELSE IF IsSectionLine(text[i]) THEN i
  ELSE FlyDocSectionEnd(text, i + 1)


(***************************************************************************)
(* FlyMarkdown helpers.  A code block is a fenced block (a line starting   *)
(* with three grave accents up to the next such line) or a run of lines    *)
(* indented by four spaces.                                                *)
(***************************************************************************)
szFence == <<"GRAVE","GRAVE","GRAVE">>

szIndent == <<" "," "," "," ">>

IsFence(line) == StartsWith(line, szFence)

IsIndented(line) == StartsWith(line, szIndent) /\ ~FlyStrLineIsBlank(line)

FlyMd2HtmlIsCodeBlk(line) == IsFence(line) \/ IsIndented(line)

RECURSIVE FenceClose(_, _)
\* index after the closing fence at or after i, Len + 1 when the block is not closed
FenceClose(text, i) ==
  IF i > Len(text) THEN i
  ELSE IF IsFence(text[i]) THEN i + 1
  ELSE FenceClose(text, i + 1)

RECURSIVE IndentEnd(_, _)
IndentEnd(text, i) ==
  IF i <= Len(text) /\ IsIndented(text[i]) THEN IndentEnd(text, i + 1) ELSE i

\* index of the line after the code block that starts at line i; i when no code
\* block starts there
FlyMd2HtmlCodeBlkEnd(text, i) ==
  IF i > Len(text) THEN i
  ELSE IF IsFence(text[i]) THEN FenceClose(text, i + 1)
  ELSE IndentEnd(text, i)

RECURSIVE HashRun(_, _)
HashRun(line, i) == IF i <= Len(line) /\ line[i] = "#" THEN 1 + HashRun(line, i + 1) ELSE 0

\* a heading line: one to six '#' and white space
FlyMd2HtmlIsHeading(line) ==
  Let([n \in {HashRun(line, 1)} |-> n >= 1 /\ n <= 6 /\ n < Len(line) /\ isspace(line[n + 1])])

FlyMd2HtmlHeadingText(line) == FlyStrToLineEnd(line, FlyStrSkipWhite(line, HashRun(line, 1) + 1))

\* FlyMdNPBrk(psz, FlyStrLineEnd(psz), "!")
FlyMdNPBrk(line, i) == IndexOf(line, "!", i)

\* the link of an image reference whose '(' is at column open and ')' at paren
AltLinkAt(line, open, paren) ==
  Let([lnk \in {FlyStrSkipWhite(line, open + 1)} |->
       FlyStrAllocN(line, lnk, Min(FlyStrArgLen(line, lnk), paren - lnk))])

\* FlyMdAltLink: the parts of a markdown image reference ![alt](link "title") at
\* column i: ok, the link and the column after the reference
FlyMdAltLink(line, i) ==
  Let([close \in {IndexOf(line, "]", i + 2)} |-> Let([paren \in {IF close > 0 THEN IndexOf(line, ")",
  close + 2) ELSE 0} |->
  Let([szLink \in {IF paren > 0 THEN AltLinkAt(line, close + 1, paren) ELSE << >>} |-> [ok     |->
  i + 1 <= Len(line) /\ line[i] = "!" /\ line[i + 1] = "[" /\ close > 0
                      /\ close + 1 <= Len(line) /\ line[close + 1] = "(" /\ paren > 0
                      /\ Len(szLink) > 0,
         szLink |-> szLink,
         after  |-> paren + 1]])])])

FlyMd2HtmlIsImage(line, i) == FlyMdAltLink(line, i).ok

(***************************************************************************)
(* FlyStr path and trimming helpers                                        *)
(***************************************************************************)
\* the file name of a path, without its folders
FlyStrPathNameOnly(szPath) == SubSeq(szPath, LastIndexOf(szPath, "/", Len(szPath)) + 1, Len(szPath))

\* column of the '.' that starts the extension of the file name, 0 (NULL) when none
FlyStrPathExt(szPath) ==
  Let([dot \in {LastIndexOf(szPath, ".", Len(szPath))} |->
       IF dot > LastIndexOf(szPath, "/", Len(szPath)) THEN dot ELSE 0])

\* faulty variant of CutExt: the extension is kept
KeepExt(sz) == sz

\* the string cut at its extension: *FlyStrPathExt(sz) = '\0'
CutExt(sz) == Let([dot \in {FlyStrPathExt(sz)} |-> IF dot > 0 THEN SubSeq(sz, 1, dot - 1) ELSE sz])

RECURSIVE LastNonBlank(_, _)
LastNonBlank(s, i) == IF i >= 1 /\ isspace(s[i]) THEN LastNonBlank(s, i - 1) ELSE i

\* FlyStrBlankRemove: the string without leading and trailing white space
FlyStrBlankRemove(s) == SubSeq(s, FlyStrSkipWhite(s, 1), LastNonBlank(s, Len(s)))

RECURSIVE LastNonBlankLine(_, _)
LastNonBlankLine(text, i) ==
  IF i >= 1 /\ FlyStrLineIsBlank(text[i]) THEN LastNonBlankLine(text, i - 1) ELSE i

\* FlyStrLineBlankRemove: the text without leading and trailing blank lines
FlyStrLineBlankRemove(text) ==
  SubSeq(text, FlyStrLineSkipBlank(text, 1), LastNonBlankLine(text, Len(text)))

(***************************************************************************)
(* FlyList                                                                 *)
(***************************************************************************)
FlyListAppend(pList, pItem) == Append(pList, pItem)

InsertAt(pList, i, pItem) == SubSeq(pList, 1, i - 1) \o << pItem >> \o SubSeq(pList, i, Len(pList))

RECURSIVE SortedPos(_, _, _)
\* pfnCmp[x] is what the comparison callback returns for the new item and the
\* element x; the item goes before the first element that compares greater than it
SortedPos(pList, pfnCmp, i) ==
  IF i > Len(pList) THEN i
  ELSE IF pfnCmp[pList[i]] < 0 THEN i
  ELSE SortedPos(pList, pfnCmp, i + 1)

FlyListAddSorted(pList, pItem, pfnCmp) == InsertAt(pList, SortedPos(pList, pfnCmp, 1), pItem)

(***************************************************************************)
(* Document model (flydoc.h).  d is the flyDoc_t: its lists are sequences, *)
(* every module, class and markdown document carries the identity (id) it  *)
(* got when it was allocated, d.heap is the next identity to hand out.     *)
(* d.stderr counts the warnings printed, by kind; d.fault is set when the  *)
(* process has died (a wild pointer, a failed FlyAssert).                  *)
(***************************************************************************)
Warnings == { "szWarningNoModule", "szWarningDuplicate", "szWarningNoFunction",
              "szWarningBadDocStr", "szWarningSyntax", "szWarningEmpty",
              "szWarningCreateFolder", "szWarningCreateFile", "szWarningNoObjects",
              "szWarningNoImage", "szWarningReadFile" }

\* a flyDocSection_t with its title set and everything else zeroed
NewSection(szTitle) ==
  [ szTitle |-> szTitle, szSubtitle |-> NULL, szText |-> NULL, szBarColor |-> NULL,
    szTitleColor |-> NULL, szHeadingColor |-> NULL, szFontBody |-> NULL,
    szFontHeadings |-> NULL, szLogo |-> NULL, szVersion |-> NULL, pExampleList |-> << >> ]

FlyDocPrintWarning(d, szWarning) ==
  [d EXCEPT !.nWarnings = @ + 1, !.stderr = [@ EXCEPT ![szWarning] = @ + 1]]

\* faulty variant of FlyDocPrintWarningEx: the warning is counted, its text is not
\* printed
WarningNotPrinted(d, szWarning) == [d EXCEPT !.nWarnings = @ + 1]

FlyDocPrintWarningEx(d, szWarning) ==
  [d EXCEPT !.nWarnings = @ + 1, !.stderr = [@ EXCEPT ![szWarning] = @ + 1]]

\* the process dies here
Fault(d) == [d EXCEPT !.fault = TRUE]

\* all modules and classes
AllMods(d) == d.pModList \o d.pClassList

\* the module or class with this identity
ModAt(d, id) == CHOOSE m \in Range(AllMods(d)) : m.id = id

\* pointers to sections: &pMod->section, &pMarkdown->section, &pMainPage->section
ModSection(id) == [kind |-> "module", id |-> id]

MarkdownSection(id) == [kind |-> "markdown", id |-> id]

MainPageSection == [kind |-> "mainpage", id |-> 0]

\* *pSection
SectionAt(d, pSection) ==
  IF pSection.kind = "mainpage" THEN Deref(d.pMainPage).section
  ELSE (CHOOSE m \in Range(d.pModList \o d.pClassList \o d.pMarkdownList) : m.id = pSection.id).section

PutIn(pList, id, section) ==
  [i \in 1..Len(pList) |-> IF pList[i].id = id THEN [pList[i] EXCEPT !.section = section] ELSE pList[i]]

\* *pSection = section
SectionPut(d, pSection, section) ==
  IF pSection.kind = "mainpage"
  THEN [d EXCEPT !.pMainPage = Ptr([section |-> section])]
  ELSE [d EXCEPT !.pModList = PutIn(@, pSection.id, section),
                 !.pClassList = PutIn(@, pSection.id, section),
                 !.pMarkdownList = PutIn(@, pSection.id, section)]


(***************************************************************************)
(* Images                                                                  *)
(***************************************************************************)
FlyDocImageHasPath(szLink) == IndexOf(szLink, "/", 1) > 0

RECURSIVE ImageFileIndex(_, _, _)
\* index of the first input image file whose file name is the link, 0 when none
ImageFileIndex(pImgFileList, szLink, i) ==
  IF i > Len(pImgFileList) THEN 0
  ELSE IF strcmp(FlyStrPathNameOnly(pImgFileList[i].szPath), szLink) = 0 THEN i
  ELSE ImageFileIndex(pImgFileList, szLink, i + 1)

\* fOk and the list with the found file marked as referenced
FlyDocImageFileFind(pImgFileList, szLink) ==
  Let([i \in {IF FlyDocImageHasPath(szLink) THEN 0 ELSE ImageFileIndex(pImgFileList, szLink, 1)} |->
  [fOk  |-> FlyDocImageHasPath(szLink) \/ i > 0,
     list |-> IF i > 0 THEN [pImgFileList EXCEPT ![i].fReferenced = TRUE] ELSE pImgFileList]])

\* the body of FlyDocParseImage for the link of the reference: a link without a
\* path must name an input image file; the link is recorded in pImageList
ImageLink(d, szLink) ==
  Let([d1 \in {IF FlyDocImageHasPath(szLink) THEN d
       ELSE Let([f \in {FlyDocImageFileFind(d.pImgFileList, szLink)} |->
            IF f.fOk THEN [d EXCEPT !.pImgFileList = f.list]
              ELSE FlyDocPrintWarningEx(d, "szWarningNoImage")])} |->
       [d1 EXCEPT !.pImageList = FlyListAppend(@, [szLink |-> szLink])]])

\* d and the column after the image reference at column i of the line
FlyDocParseImage(d, line, i) ==
  Let([al \in {FlyMdAltLink(line, i)} |-> [d |-> ImageLink(d, al.szLink), after |-> al.after]])

RECURSIVE LineImages(_, _, _, _)
\* the do-while loop of MdParseTextForImages over one line; i counts from 8 to 16
LineImages(d, line, psz, i) ==
  Let([p \in {FlyMdNPBrk(line, psz)} |-> IF p = 0 THEN d
    ELSE Let([r \in {IF FlyMd2HtmlIsImage(line, p) THEN FlyDocParseImage(d, line, p)
              ELSE [d |-> d, after |-> p + 1]} |->
              IF i + 1 < 16 THEN LineImages(r.d, line, r.after, i + 1) ELSE r.d])])

RECURSIVE ImagesFrom(_, _, _)
ImagesFrom(d, szText, i) ==
  IF i > Len(szText) THEN d
  ELSE IF FlyMd2HtmlIsCodeBlk(szText[i]) THEN ImagesFrom(d, szText, FlyMd2HtmlCodeBlkEnd(szText, i))
  ELSE ImagesFrom(IF FlyDocIsKeyword(szText[i]).fIsKeyword THEN d ELSE LineImages(d, szText[i], 1, 8),
                  szText, i + 1)

MdParseTextForImages(d, szText) == ImagesFrom(d, szText, 1)

(***************************************************************************)
(* Style keywords                                                          *)
(***************************************************************************)
szHeadingClass == <<"w","3","-","t","e","x","t","-">>

\* the argument at column i of the line, NULL when there is none
ArgAt(line, i) ==
  Let([n \in {FlyStrArgLen(line, i)} |-> IF n > 0 THEN Ptr(FlyStrAllocN(line, i, n)) ELSE NULL])

\* the up to three arguments from column pszArg on; none after a missing one
Args3(line, pszArg) ==
  Let([a2 \in {FlyStrArgNext(line, pszArg)} |->
  Let([a \in {<< ArgAt(line, pszArg), ArgAt(line, a2), ArgAt(line, FlyStrArgNext(line, a2)) >>} |->
  << a[1], IF a[1] # NULL THEN a[2] ELSE NULL, IF a[1] # NULL /\ a[2] # NULL THEN a[3] ELSE NULL >>])])

\* @color bar {title {heading}}
FlyDocParseColor(section, line, pszArg) ==
  Let([a \in {Args3(line, pszArg)} |->
  Let([bar \in {IF a[1] # NULL THEN a[1] ELSE section.szBarColor} |-> [section EXCEPT
         !.szBarColor     = bar,
         !.szTitleColor   = IF a[2] # NULL THEN a[2] ELSE @,
         !.szHeadingColor = IF a[3] # NULL THEN a[3]
                            ELSE IF bar # NULL
                                 THEN Ptr(szHeadingClass \o SubSeq(Deref(bar), 4, Len(Deref(bar))))
                                 ELSE @]])])

\* @font body {headings}
FlyDocParseFont(section, line, pszArg) ==
  Let([a \in {Args3(line, pszArg)} |-> [section EXCEPT
       !.szFontBody     = IF a[1] # NULL THEN a[1] ELSE @,
       !.szFontHeadings = IF a[2] # NULL THEN a[2] ELSE @]])

\* @logo ![alt](link)
FlyDocParseLogo(d, pSection, line, pszArg) ==
  IF ~FlyMd2HtmlIsImage(line, pszArg) THEN FlyDocPrintWarningEx(d, "szWarningSyntax")
  ELSE Let([r \in {FlyDocParseImage(d, line, pszArg)} |-> SectionPut(r.d, pSection,
           Let([s \in {SectionAt(r.d, pSection)} |->
           [s EXCEPT !.szLogo = Ptr(FlyStrAllocN(line, pszArg, r.after - pszArg))]]))])

FlyDocAllocToLineEnd(line, i) == FlyStrToLineEnd(line, i)

MdParseStyleKeyword(d, pSection, line, pszArg, keyword) ==
  CASE keyword = "COLOR"   -> SectionPut(d, pSection,
      Let([s \in {SectionAt(d, pSection)} |-> FlyDocParseColor(s, line, pszArg)]))
    [] keyword = "FONT"    -> SectionPut(d, pSection,
        Let([s \in {SectionAt(d, pSection)} |-> FlyDocParseFont(s, line, pszArg)]))
    [] keyword = "LOGO"    -> FlyDocParseLogo(d, pSection, line, pszArg)
    [] keyword = "VERSION" ->
         SectionPut(d, pSection,
             Let([s \in {SectionAt(d, pSection)} |->
             [s EXCEPT !.szVersion = Ptr(FlyDocAllocToLineEnd(line, pszArg))]]))
    [] OTHER -> d

(***************************************************************************)
(* Examples and the text body                                              *)
(***************************************************************************)
szExamplePrefix == <<"E","x","a","m","p","l","e",":"," ">>

\* the flyDocExample_t made from the title that starts at column i of the line
FlyDocExampleNew(line, i) ==
  [szTitle |-> FlyStrBlankRemove(szExamplePrefix \o FlyStrToLineEnd(line, i))]

FlyDocExampleEnd(text, i) == FlyMd2HtmlCodeBlkEnd(text, FlyStrLineSkipBlank(text, i))

\* d, the return value (NULL or the line after the example) and what is stored in
\* *ppExample (NULL when nothing is stored) for the @example line at index i
FlyDocParseExample(d, text, i) ==
  Let([szTitle \in {FlyStrArgNext(text[i], FlyStrSkipWhite(text[i], 1))} |->
  IF FlyStrLineIsBlank(FlyStrToLineEnd(text[i], szTitle))
    THEN [d |-> FlyDocPrintWarningEx(d, "szWarningSyntax"), end |-> NULL, pExample |-> NULL]
    ELSE Let([szLine \in {FlyStrLineSkipBlank(text, i + 1)} |->
         Let([szExampleEnd \in {FlyDocExampleEnd(text, szLine)} |-> [d |->
         IF szLine = szExampleEnd THEN FlyDocPrintWarningEx(d, "szWarningEmpty") ELSE d,
              end |-> Ptr(szExampleEnd),
              pExample |-> Ptr(FlyDocExampleNew(text[i], szTitle))]])])])

\* faulty variant of ExampleAppend: the example takes the place of the list
ExampleAlone(d, pSection, pExample) ==
  SectionPut(d, pSection,
      Let([s \in {SectionAt(d, pSection)} |-> [s EXCEPT !.pExampleList = << pExample >>]]))

\* faulty variant of ExampleAppend: the example is not put into the list
ExampleDrop(d, pSection, pExample) == d

\* pSection->pExampleList = FlyListAppend(pSection->pExampleList, pExample)
ExampleAppend(d, pSection, pExample) ==
  SectionPut(d, pSection,
      Let([s \in {SectionAt(d, pSection)} |-> [s EXCEPT !.pExampleList = FlyListAppend(@, pExample)]]))

\* one pass of the first loop of FlyDocParseText at line i: d and the next line
ParseTextKeyword(d, pSection, text, i) ==
  Let([k \in {FlyDocIsKeyword(text[i])} |-> IF ~k.fIsKeyword THEN [d |-> d, szLine |-> i + 1]
    ELSE IF k.keyword = "EXAMPLE"
    THEN Let([r \in {FlyDocParseExample(d, text, i)} |-> IF r.end # NULL
           THEN [d |-> ExampleAppend(r.d, pSection, Deref(r.pExample)), szLine |-> Deref(r.end)]
           ELSE [d |-> r.d, szLine |-> i + 1]])
    ELSE [d |-> MdParseStyleKeyword(d, pSection, text[i], k.arg, k.keyword), szLine |-> i + 1]])

RECURSIVE ParseTextScan(_, _, _, _, _)
\* the first loop of FlyDocParseText from line i: examples and style keywords
ParseTextScan(d, pSection, text, i, szEnd) ==
  IF i > Len(text) \/ i >= szEnd THEN d
  ELSE Let([s \in {ParseTextKeyword(d, pSection, text, i)} |->
            ParseTextScan(s.d, pSection, text, s.szLine, szEnd)])

\* faulty variant of IsProseLine: the keyword lines are copied too
ProseAll(line) == TRUE

\* a line the second loop of FlyDocParseText copies into the prose
IsProseLine(line) ==
  Let([k \in {FlyDocIsKeyword(line)} |->
       ~(k.fIsKeyword /\ ~(k.keyword = "EXAMPLE" \/ k.keyword = "UNKNOWN"))])

\* the second loop of FlyDocParseText: the lines of [szStart, szEnd) that are kept
ParseTextCopy(text, szStart, szEnd) ==
  SelectSeq(SubSeq(text, szStart, Min(szEnd - 1, Len(text))), IsProseLine)

\* d and the returned szText (NULL when no content) for the lines [szStart, szEnd)
FlyDocParseText(d, pSection, text, szStart, szEnd) ==
  Let([szText \in {FlyStrLineBlankRemove(ParseTextCopy(text, szStart, szEnd))} |->
  Let([d1 \in {ParseTextScan(d, pSection, text, szStart, szEnd)} |-> IF Len(szText) = 0 THEN [d |->
  d1, szText |-> NULL]
      ELSE [d |-> MdParseTextForImages(d1, szText), szText |-> Ptr(szText)]])])


(***************************************************************************)
(* Modules and classes                                                     *)
(***************************************************************************)
\* the allocated C identifier at column i of the line, NULL when there is none
FlyDocCNameAlloc(line, i) ==
  Let([len \in {FlyStrCNameLen(line, i)} |-> IF len > 0 THEN Ptr(FlyStrAllocN(line, i, len)) ELSE NULL])

\* a new module titled by the first argument of szTitle, allocated at d.heap
FlyDocModNew(d, szTitle) ==
  [id |-> d.heap, section |-> NewSection(FlyStrAllocN(szTitle, 1, FlyStrArgLen(szTitle, 1))),
   pFuncList |-> << >>]

\* faulty variant of FlyDocModListCmp: the titles are compared by strcmp
ModListCmpCase(pMod1, pMod2) == strcmp(pMod1.section.szTitle, pMod2.section.szTitle)

FlyDocModListCmp(pMod1, pMod2) == strcasecmp(pMod1.section.szTitle, pMod2.section.szTitle)

FlyDocModListAdd(pList, pMod, fSort) ==
  IF fSort THEN FlyListAddSorted(pList, pMod, [x \in Range(pList) |->
      FlyDocModListCmp(pMod, x)]) ELSE FlyListAppend(pList, pMod)

\* the new module or class goes into its list
ModListPut(d, pMod, fClass) ==
  Let([pList \in {FlyDocModListAdd(IF fClass THEN d.pClassList ELSE d.pModList, pMod, d.fSort)} |->
  IF fClass THEN [d EXCEPT !.pClassList = pList, !.heap = @ + 1]
    ELSE [d EXCEPT !.pModList = pList, !.heap = @ + 1]])

RECURSIVE ModIndex(_, _, _)
ModIndex(pList, szTitle, i) ==
  IF i > Len(pList) THEN 0
  ELSE IF strcmp(szTitle, pList[i].section.szTitle) = 0 THEN i
  ELSE ModIndex(pList, szTitle, i + 1)

\* faulty variant of FlyDocModInList: the entity is never found
ModNotInList(pList, szTitle) == NULL

\* pointer to the first entity of the list with exactly this title, or NULL
FlyDocModInList(pList, szTitle) ==
  Let([i \in {ModIndex(pList, szTitle, 1)} |-> IF i > 0 THEN Ptr(pList[i].id) ELSE NULL])

\* the tail of FlyDocParseInGroup, for a valid name
InGroupNamed(d, szModName, fClass) ==
  Let([pMod \in {FlyDocModInList(IF fClass THEN d.pClassList ELSE d.pModList, szModName)} |->
  IF pMod # NULL THEN [d EXCEPT !.pCurMod = pMod]
    ELSE [ModListPut(d, FlyDocModNew(d, szModName), fClass) EXCEPT !.pCurMod = Ptr(d.heap)]])

\* @ingroup / @inclass line: resolve or create the entity and make it current
FlyDocParseInGroup(d, szLine) ==
  Let([k \in {FlyDocIsKeyword(szLine)} |->
  Let([szModName \in {FlyDocCNameAlloc(szLine, k.arg)} |->
  IF szModName = NULL THEN FlyDocPrintWarningEx(d, "szWarningSyntax")
      ELSE InGroupNamed(d, Deref(szModName), k.keyword = "INCLASS")])])

(***************************************************************************)
(* Duplicate / namespace check                                             *)
(***************************************************************************)
szIndex == <<"i","n","d","e","x">>

RECURSIVE DupIndex(_, _, _)
\* index of the first of the titles that equals the title ignoring case, 0 when none
DupIndex(titles, title, i) ==
  IF i > Len(titles) THEN 0
  ELSE IF strcasecmp(title, titles[i]) = 0 THEN i
  ELSE DupIndex(titles, title, i + 1)

\* the titles the title is compared with: of the modules, of the classes, of the
\* markdown documents cut at their extension, and "index"
DupTitles(d) ==
  << [i \in 1..Len(d.pModList) |-> d.pModList[i].section.szTitle],
     [i \in 1..Len(d.pClassList) |-> d.pClassList[i].section.szTitle],
     [i \in 1..Len(d.pMarkdownList) |-> CutExt(d.pMarkdownList[i].section.szTitle)],
     << szIndex >> >>

\* The module loop stops, and stops counting pages, at the first duplicate; the
\* class loop runs only while no duplicate was found; the markdown loop is not cut
\* short.  dup[n] is the index of the duplicate among the n-th titles, 0 when none.
DupPages(d, dup) ==
  (IF dup[1] > 0 THEN dup[1] ELSE Len(d.pModList))
  + (IF dup[1] > 0 THEN 0 ELSE IF dup[2] > 0 THEN dup[2] ELSE Len(d.pClassList))
  + Len(d.pMarkdownList)

FlyDocDupCheck(d, szTitle) ==
  Let([dup \in {[n \in 1..4 |-> DupIndex(DupTitles(d)[n], CutExt(szTitle), 1)]} |->
  IF \/ dup[1] > 0 \/ dup[2] > 0 \/ dup[3] > 0
       \/ (dup[4] > 0 /\ (d.pMainPage # NULL \/ DupPages(d, dup) > 1))
    THEN FlyDocPrintWarningEx(d, "szWarningDuplicate")
    ELSE d])

(***************************************************************************)
(* @defgroup / @class section                                              *)
(***************************************************************************)
\* pattern "@keyword name description": fPatternMatched and the two columns
FlyDocGetNameDescription(szLine) ==
  Let([psz \in {FlyStrSkipWhite(szLine, 1)} |->
  Let([name \in {FlyStrArgNext(szLine, psz)} |->
  IF psz <= Len(szLine) /\ szLine[psz] = "@" /\ FlyStrArgLen(szLine, name) > 0
      THEN [fPatternMatched |-> TRUE, szName |-> name, szDescription |-> FlyStrArgNext(szLine, name)]
      ELSE [fPatternMatched |-> FALSE, szName |-> 0, szDescription |-> 0]])])

\* faulty variant of IsStub: an entity made by @ingroup / @inclass counts as declared
IsStubNever(pMod) == FALSE

\* the module or class was made by @ingroup / @inclass only: a title, no subtitle
\* and no text
IsStub(pMod) == pMod.section.szSubtitle = NULL /\ pMod.section.szText = NULL

\* "create the module if needed": the checked and inserted new module
ModuleCreate(d, szCName, fClass) ==
  Let([pMod \in {FlyDocModNew(d, szCName)} |-> [d |->
  ModListPut(FlyDocDupCheck(d, pMod.section.szTitle), pMod, fClass), pMod |-> Ptr(pMod.id)]])

\* FlyDocParseModule from "this is now the current module" on
ModuleText(d, pMod, text, szLine, szSectionEnd) ==
  IF pMod = NULL THEN Fault(d)
  ELSE Let([r \in {FlyDocParseText([d EXCEPT !.pCurMod = pMod], ModSection(Deref(pMod)), text, szLine, szSectionEnd)} |->
            SectionPut(r.d, ModSection(Deref(pMod)),
                Let([s \in {SectionAt(r.d, ModSection(Deref(pMod)))} |-> [s EXCEPT !.szText = r.szText]]))])

\* The section [szSection, szSectionEnd) of the header text.  pMod is a local that
\* is not initialised: pStack is the value it holds when no assignment reaches it
\* (NULL stands for a pointer that cannot be dereferenced).
FlyDocParseModule(d, text, szSection, szSectionEnd, fClass, pStack) ==
  Let([nd \in {FlyDocGetNameDescription(text[szSection])} |->
  Let([szCName \in {IF nd.fPatternMatched
                    THEN FlyDocCNameAlloc(text[szSection], nd.szName)
                    ELSE NULL} |->
  Let([pFound \in {IF szCName # NULL
                   THEN FlyDocModInList(IF fClass THEN d.pClassList ELSE d.pModList, Deref(szCName))
                   ELSE pStack} |->
  Let([fDup \in {szCName # NULL /\ pFound # NULL /\ ~IsStub(ModAt(d, Deref(pFound)))} |->
  Let([fWorked \in {szCName # NULL /\ ~fDup} |->
  Let([c \in {IF fWorked /\ pFound = NULL
              THEN ModuleCreate(d, Deref(szCName), fClass)
              ELSE [d |-> IF szCName = NULL THEN FlyDocPrintWarningEx(d, "szWarningSyntax")
                          ELSE IF fDup THEN FlyDocPrintWarningEx(d, "szWarningDuplicate")
                          ELSE d,
                    pMod |-> pFound]} |->
    ModuleText(IF fWorked
               THEN SectionPut(c.d, ModSection(Deref(c.pMod)),
                      Let([s \in {SectionAt(c.d, ModSection(Deref(c.pMod)))} |->
                        [s EXCEPT !.szSubtitle =
                                    Ptr(FlyDocAllocToLineEnd(text[szSection], nd.szDescription))]]))
               ELSE c.d,
               c.pMod, text, szSection + 1, szSectionEnd)])])])])])])

(***************************************************************************)
(* @mainpage section                                                       *)
(***************************************************************************)
RECURSIVE MainPageScan(_, _, _, _)
\* the while loop of FlyDocParseMainPage from line i: style keywords are applied,
\* the first other non-blank line ends the loop and is the subtitle when the line
\* after it is blank.  Gives d and the subtitle line (NULL when none).
MainPageScan(d, text, i, szSectionEnd) ==
  IF i > Len(text) \/ i >= szSectionEnd THEN [d |-> d, szSubtitle |-> NULL]
  ELSE Let([k \in {FlyDocIsKeyword(text[i])} |-> IF ~k.fIsKeyword /\ ~FlyStrLineIsBlank(text[i])
         THEN [d |-> d,
               szSubtitle |-> IF i + 1 > Len(text) \/ FlyStrLineIsBlank(text[i + 1])
                              THEN Ptr(i) ELSE NULL]
         ELSE MainPageScan(IF k.fIsKeyword
                           THEN MdParseStyleKeyword(d, MainPageSection, text[i], k.arg, k.keyword)
                           ELSE d,
                           text, i + 1, szSectionEnd)])

\* FlyDocParseMainPage after the loop: the subtitle and the text body
MainPageText(s, text, szSection, szSectionEnd) ==
  Let([d \in {IF s.szSubtitle = NULL THEN s.d
       ELSE SectionPut(s.d, MainPageSection,
              Let([m \in {SectionAt(s.d, MainPageSection)} |->
              [m EXCEPT !.szSubtitle = Ptr(FlyDocAllocToLineEnd(text[Deref(s.szSubtitle)], 1))]]))} |->
       IF szSection < szSectionEnd
         THEN Let([r \in {FlyDocParseText(d, MainPageSection, text, szSection, szSectionEnd)} |->
              SectionPut(r.d, MainPageSection,
              Let([m \in {SectionAt(r.d, MainPageSection)} |-> [m EXCEPT !.szText = r.szText]]))])
         ELSE d])

\* FlyDocParseMainPage from the allocation of the main page on
MainPageNew(d, text, szSection, szSectionEnd) ==
  Let([s \in {MainPageScan([d EXCEPT !.pMainPage = Ptr([section |->
                            NewSection(FlyDocAllocToLineEnd(text[szSection],
                              FlyStrArgNext(text[szSection], FlyStrSkipWhite(text[szSection], 1))))])],
                         text, szSection + 1, szSectionEnd)} |->
            MainPageText(s, text,
                                    IF s.szSubtitle = NULL THEN szSection + 1 ELSE Deref(s.szSubtitle) + 1,
                                    szSectionEnd)])

\* faulty variant of FlyDocParseMainPage: an existing main page is not looked for
MainPageAgain(d, text, szSection, szSectionEnd) == MainPageNew(d, text, szSection, szSectionEnd)

FlyDocParseMainPage(d, text, szSection, szSectionEnd) ==
  IF d.pMainPage # NULL THEN FlyDocPrintWarningEx(d, "szWarningDuplicate")
  ELSE MainPageNew(d, text, szSection, szSectionEnd)


(***************************************************************************)
(* Function section                                                        *)
(***************************************************************************)
RECURSIVE CNameBack(_, _)
\* column where the run of identifier characters that ends at column i starts
CNameBack(sz, i) == IF i >= 1 /\ IsCNameChar(sz[i]) THEN CNameBack(sz, i - 1) ELSE i + 1

\* the function name of a prototype whose '(' is at column open: the C identifier
\* right before it; 0 when there is none
FnNameAt(szPrototype, open) ==
  Let([last \in {LastNonBlank(szPrototype, open - 1)} |->
  Let([first \in {IF last > 0 THEN CNameBack(szPrototype, last) ELSE 1} |->
  IF first <= last /\ ~isdigit(szPrototype[first]) THEN first ELSE 0])])

\* FlyStrFnProtoLen: the prototype runs to the ')' that follows the first '(';
\* the function name is the C identifier right before the '('.  protoLen is 0
\* when the line holds no such prototype.
FlyStrFnProtoLen(szPrototype) ==
  Let([open \in {IndexOf(szPrototype, "(", 1)} |-> Let([p \in {IF open > 0 THEN << IndexOf(szPrototype, ")",
  open), FnNameAt(szPrototype, open) >>
         ELSE << 0, 0 >>} |->
         [protoLen |-> IF p[1] > 0 /\ p[2] > 0 THEN p[1] ELSE 0, szFuncName |-> p[2]]])])

\* a new flyDocFunc_t named by the C identifier at column i of the line
FlyDocFuncNew(line, i) ==
  [szFunc |-> FlyStrAllocN(line, i, FlyStrCNameLen(line, i)), szBrief |-> NULL,
   szPrototype |-> << >>, szText |-> NULL, szLang |-> << >>]

FlyDocFuncListCmp(pFunc1, pFunc2) == strcasecmp(pFunc1.szFunc, pFunc2.szFunc)

\* faulty variant of FlyDocFuncListAdd: the function is not put into the list
FuncListNotAdded(pList, pFunc, fSort) == pList

FlyDocFuncListAdd(pList, pFunc, fSort) ==
  IF fSort THEN FlyListAddSorted(pList, pFunc, [x \in Range(pList) |->
      FlyDocFuncListCmp(pFunc, x)]) ELSE FlyListAppend(pList, pFunc)

FuncListPut(pList, id, pFuncList) ==
  [i \in 1..Len(pList) |->
     IF pList[i].id = id THEN [pList[i] EXCEPT !.pFuncList = pFuncList] ELSE pList[i]]

\* pDoc->pCurMod->pFuncList = FlyDocFuncListAdd(pDoc->pCurMod->pFuncList, pFunc, fSort)
FuncAdd(d, pFunc) ==
  Let([pFuncList \in {FlyDocFuncListAdd(ModAt(d, Deref(d.pCurMod)).pFuncList, pFunc, d.fSort)} |->
  [d EXCEPT !.pModList = FuncListPut(@, Deref(d.pCurMod), pFuncList),
              !.pClassList = FuncListPut(@, Deref(d.pCurMod), pFuncList)]])

RECURSIVE FunctionPreScan(_, _, _, _, _)
\* the first loop of FlyDocParseFunction: @ingroup / @inclass and the brief
FunctionPreScan(d, text, i, szSectionEnd, szBrief) ==
  IF i > Len(text) \/ i >= szSectionEnd THEN [d |-> d, szBrief |-> szBrief]
  ELSE Let([k \in {FlyDocIsKeyword(text[i])} |-> FunctionPreScan(IF k.fIsKeyword /\ k.keyword \in {"INCLASS",
       "INGROUP"}
                         THEN FlyDocParseInGroup(d, text[i]) ELSE d,
                         text, i + 1, szSectionEnd,
                         IF ~k.fIsKeyword /\ szBrief = NULL /\ ~FlyStrLineIsBlank(text[i])
                         THEN Ptr(i) ELSE szBrief)])

IsProtoLine(line) ==
  Let([k \in {FlyDocIsKeyword(line)} |-> k.fIsKeyword /\ FlyDocIsKeywordProto(k.keyword)])

szFlyDocExtra == <<" ", " ">>

FlyDocExtraIsAtEnd(line) ==
  Len(line) >= 2 /\ line[Len(line) - 1] = " " /\ line[Len(line)] = " "

\* the line as copied into the prototype block, padded for a markdown line break
FlyDocExtraLineCopy(line) == IF FlyDocExtraIsAtEnd(line) THEN line ELSE line \o szFlyDocExtra

RECURSIVE TextBytes(_, _)
\* bytes of the lines from index i on, with their line endings
TextBytes(lines, i) == IF i > Len(lines) THEN 0 ELSE Len(lines[i]) + 1 + TextBytes(lines, i + 1)

\* the @param / @return / unknown keyword lines among the lines [szStart, szEnd)
ProtoLines(text, szStart, szEnd) ==
  SelectSeq(SubSeq(text, szStart, Min(szEnd - 1, Len(text))), IsProtoLine)

\* sizeProto: the prototype, szTwoLines, the NUL, and for every such line of the
\* section its length with the line ending and the padding
ProtoSize(protoLen, text, szSection, szSectionEnd) ==
  Let([lines \in {ProtoLines(text, szSection, szSectionEnd)} |->
       protoLen + 2 + 1 + TextBytes(lines, 1) + Len(szFlyDocExtra) * Len(lines)])

\* what the copy loop writes after the prototype: every such line from szLine to
\* the end of the header text, padded
ProtoCopy(text, szLine) ==
  Let([lines \in {ProtoLines(text, szLine, Len(text) + 1)} |->
       [i \in 1..Len(lines) |-> FlyDocExtraLineCopy(lines[i])]])

\* FlyDocParseFunction from "add function into the module list" on.  szLine is the
\* line after the brief (the section start when there is no brief), szSig the
\* prototype proper.
FunctionAdd(d, text, szSection, szSectionEnd, szLine, pFunc, szSig) ==
  Let([copied \in {ProtoCopy(text, szLine)} |->
  Let([f \in {[pFunc EXCEPT !.szPrototype = FlyStrLineBlankRemove(<< szSig, << >> >> \o copied)]} |->
  IF ~(Len(szSig) + 2 + TextBytes(copied, 1) < ProtoSize(Len(szSig), text, szSection, szSectionEnd))
      THEN Fault(FuncAdd(d, f))
      ELSE Let([r \in {FlyDocParseText(d, ModSection(Deref(d.pCurMod)), text, szLine, Len(text) + 1)} |->
                FuncAdd(r.d, [f EXCEPT !.szText = r.szText])])])])

\* The section [szSection, szSectionEnd) of the header text.  pHdr describes the
\* raw comment: szNear is the source line the prototype is looked for in (after
\* the comment, or before a doc string), fPyDoc the doc-string type, szLang the
\* language of the file.  szPrototype is NULL or the prototype given by @fn.
FlyDocParseFunction(d, text, szSection, szSectionEnd, pHdr, szPrototype) ==
  Let([pre \in {FunctionPreScan(d, text, szSection, szSectionEnd, NULL)} |->
  IF pre.d.pCurMod = NULL THEN FlyDocPrintWarningEx(pre.d, "szWarningNoModule")
    ELSE Let([szProto \in {IF szPrototype = NULL
              THEN FlyStrToLineEnd(pHdr.szNear, FlyStrSkipWhite(pHdr.szNear, 1))
              ELSE Deref(szPrototype)} |-> Let([fp \in {FlyStrFnProtoLen(szProto)} |-> IF fp.protoLen = 0
             THEN FlyDocPrintWarningEx(pre.d, IF pHdr.fPyDoc THEN "szWarningBadDocStr"
                                              ELSE "szWarningNoFunction")
             ELSE FunctionAdd(pre.d, text, szSection, szSectionEnd,
                              IF pre.szBrief # NULL THEN Deref(pre.szBrief) + 1 ELSE szSection,
                              [FlyDocFuncNew(szProto, fp.szFuncName) EXCEPT
                                 !.szBrief = IF pre.szBrief # NULL THEN Ptr(text[Deref(pre.szBrief)])
                                             ELSE NULL,
                                 !.szLang = pHdr.szLang],
                              SubSeq(szProto, 1, fp.protoLen))])])])

(***************************************************************************)
(* Markdown documents                                                      *)
(***************************************************************************)
FlyDocMarkdownNew(d, szFile, szTitle) ==
  [id |-> d.heap, section |-> NewSection(szTitle), szFile |-> szFile, pHdrList |-> << >>]

FlyDocMarkdownCmp(pMd1, pMd2) == strcmp(pMd1.section.szTitle, pMd2.section.szTitle)

FlyDocMdHdrNew(szTitle) == [szTitle |-> szTitle]

\* a heading line of the markdown document: the first one is its subtitle
MarkdownHeading(d, id, szHeading, fGotHdr) ==
  [d EXCEPT !.pMarkdownList =
     [i \in 1..Len(@) |->
        IF @[i].id = id
        THEN [@[i] EXCEPT !.section.szSubtitle = IF fGotHdr THEN @ ELSE Ptr(szHeading),
                          !.pHdrList = FlyListAppend(@, FlyDocMdHdrNew(szHeading))]
        ELSE @[i]]]

\* One pass of the while loop of FlyDocParseMarkdownFile at line i: d, the next
\* line (NULL after an @example without a title), pExample and fGotHdr.  pExample
\* is the local that FlyDocParseExample fills in only when it makes an example:
\* it keeps its previous value otherwise.
MarkdownLine(d, id, text, i, pExample, fGotHdr) ==
  Let([k \in {FlyDocIsKeyword(text[i])} |-> IF k.fIsKeyword /\ k.keyword = "EXAMPLE"
    THEN Let([r \in {FlyDocParseExample(d, text, i)} |->
         Let([pE \in {IF r.end # NULL THEN r.pExample ELSE pExample} |-> [d |->
         IF pE # NULL THEN ExampleAppend(r.d, MarkdownSection(id), Deref(pE)) ELSE r.d,
              szLine |-> IF r.end # NULL THEN Ptr(Deref(r.end) + 1) ELSE NULL,
              pExample |-> pE, fGotHdr |-> fGotHdr]])])
    ELSE IF k.fIsKeyword
    THEN [d |-> MdParseStyleKeyword(d, MarkdownSection(id), text[i], k.arg, k.keyword),
          szLine |-> Ptr(i + 1), pExample |-> pExample, fGotHdr |-> fGotHdr]
    ELSE IF FlyMd2HtmlIsCodeBlk(text[i])
    THEN [d |-> d, szLine |-> Ptr(FlyMd2HtmlCodeBlkEnd(text, i)), pExample |-> pExample,
          fGotHdr |-> fGotHdr]
    ELSE IF FlyMd2HtmlIsHeading(text[i])
    THEN [d |-> MarkdownHeading(d, id, FlyMd2HtmlHeadingText(text[i]), fGotHdr),
          szLine |-> Ptr(i + 1), pExample |-> pExample, fGotHdr |-> TRUE]
    ELSE [d |-> d, szLine |-> Ptr(i + 1), pExample |-> pExample, fGotHdr |-> fGotHdr]])

RECURSIVE MarkdownScan(_, _, _, _, _, _, _)
\* The while loop of FlyDocParseMarkdownFile from line i.  fNullOk tells whether
\* FlyStrLineNext(NULL) gives NULL back or the process dies.
MarkdownScan(d, id, text, i, pExample, fGotHdr, fNullOk) ==
  IF i > Len(text) THEN d
  ELSE Let([s \in {MarkdownLine(d, id, text, i, pExample, fGotHdr)} |-> IF s.szLine # NULL
         THEN MarkdownScan(s.d, id, text, Deref(s.szLine), s.pExample, s.fGotHdr, fNullOk)
         ELSE IF fNullOk THEN s.d ELSE Fault(s.d)])

\* The markdown document is made, checked and put into the list.
MarkdownCreate(d, szPath, szFile) ==
  Let([pMarkdown \in {[FlyDocMarkdownNew(d, szFile, FlyStrPathNameOnly(szPath)) EXCEPT !.section.szText = Ptr(szFile)]} |->
       [FlyDocDupCheck(d, pMarkdown.section.szTitle) EXCEPT
            !.heap = @ + 1,
            !.pMarkdownList = IF d.fSort THEN FlyListAddSorted(@, pMarkdown, [x \in Range(@) |->
                FlyDocMarkdownCmp(pMarkdown, x)])
                              ELSE FlyListAppend(@, pMarkdown)]])

\* A markdown file that does not start with a section keyword: a document of its
\* own.  pStack is the value the uninitialised local pExample holds (NULL, or a
\* pointer that cannot be dereferenced, written as the example "wild").
FlyDocParseMarkdownFile(d, szPath, szFile, pStack, fNullOk) ==
  Let([d1 \in {MarkdownScan(MarkdownCreate(d, szPath, szFile), d.heap, szFile, 1, pStack, FALSE, fNullOk)} |->
       IF d1.fault THEN d1 ELSE MdParseTextForImages(d1, szFile)])


(***************************************************************************)
(* File types                                                              *)
(***************************************************************************)
\* SZ_FLY_DOC_EXTS, the default of opts.szExts, one extension per element
szExts == { <<".","c">>, <<".","c","+","+">>, <<".","c","c">>, <<".","c","p","p">>, <<".","c","x","x">>,
    <<".","c","s">>, <<".","g","o">>, <<".","j","a","v","a">>, <<".","j","s">>, <<".","p","y">>, <<".","r",
    "s">>, <<".","s","w","i","f","t">>, <<".","t","s">> }

m_szMarkdownExts == { <<".","m","d">>, <<".","m","d","o","w","n">>, <<".","m","a","r","k","d","o","w","n">> }

\* FlyStrPathHasExt: the extension of the path is one of the list
FlyStrPathHasExt(szPath, exts) ==
  Let([dot \in {FlyStrPathExt(szPath)} |-> dot > 0 /\ FlyStrToLineEnd(szPath, dot) \in exts])

\* FlyStrPathLang: the language a source file is written in, by extension
FlyStrPathLang(szPath) ==
  Let([dot \in {FlyStrPathExt(szPath)} |-> IF dot > 0 THEN FlyStrToLineEnd(szPath, dot + 1) ELSE << >>])

(***************************************************************************)
(* The inputs: doc comments as FlyStrHdrFind / FlyStrHdrCpy deliver them   *)
(* (szHdr, the stripped text), with szNear the source line next to the     *)
(* comment where the prototype is looked for; and files.                   *)
(***************************************************************************)
hdrInGroupFoo ==
  [ szHdr |-> << <<"@","i","n","g","r","o","u","p"," ","F","o","o">>, <<"A","d","d","s"," ","t","w","o"," ",
      "n","u","m","b","e","r","s">>, <<"@","p","a","r","a","m"," ","a"," ","f","i","r","s","t">> >>,
    szNear |-> <<"i","n","t"," ","a","d","d","(","i","n","t"," ","a",")">>, fPyDoc |-> FALSE ]

hdrDefFoo ==
  [ szHdr |-> << <<"@","d","e","f","g","r","o","u","p"," ","F","o","o"," ","S","o","m","e"," ","t","e","x",
      "t">>, << >>, <<"B","o","d","y"," ","o","f"," ","F","o","o">> >>,
    szNear |-> << >>, fPyDoc |-> FALSE ]

hdrDefFooAgain ==
  [ szHdr |-> << <<"@","d","e","f","g","r","o","u","p"," ","F","o","o"," ","O","t","h","e","r">>, <<"C","h",
      "a","n","g","e","d">> >>,
    szNear |-> << >>, fPyDoc |-> FALSE ]

hdrClassFOO ==
  [ szHdr |-> << <<"@","c","l","a","s","s"," ","F","O","O"," ","A"," ","c","l","a","s","s">>, <<"C","l","a",
      "s","s"," ","b","o","d","y">> >>,
    szNear |-> << >>, fPyDoc |-> FALSE ]

hdrInClassFoo ==
  [ szHdr |-> << <<"@","i","n","c","l","a","s","s"," ","F","o","o">>, <<"A"," ","m","e","t","h","o","d">> >>,
    szNear |-> <<"v","o","i","d"," ","m","(","v","o","i","d",")">>, fPyDoc |-> FALSE ]

hdrMainPage ==
  [ szHdr |-> << <<"@","m","a","i","n","p","a","g","e"," ","P","r","o","j">>, <<"S","u","b"," ","t","i","t",
      "l","e">>, << >>, <<"M","a","i","n"," ","t","e","x","t">> >>,
    szNear |-> << >>, fPyDoc |-> FALSE ]

hdrMainPageAgain ==
  [ szHdr |-> << <<"@","m","a","i","n","p","a","g","e"," ","O","t","h","e","r">>, <<"@","v","e","r","s","i",
      "o","n"," ","2">> >>,
    szNear |-> << >>, fPyDoc |-> FALSE ]

hdrExample ==
  [ szHdr |-> << <<"@","d","e","f","g","r","o","u","p"," ","B","a","r"," ","B">>, <<"@","e","x","a","m","p",
      "l","e"," ","T","i","t","l","e">>, << >>, <<"n","o","t"," ","c","o","d","e">> >>,
    szNear |-> << >>, fPyDoc |-> FALSE ]

hdrBare ==
  [ szHdr |-> << << >>, <<"C","o","m","p","u","t","e","s"," ","a","r","e","a">>, <<"M","o","r","e"," ","n",
      "o","t","e","s">> >>,
    szNear |-> <<" "," ","d","o","u","b","l","e"," ","a","r","e","a","(","d","o","u","b","l","e"," ","r",
        ")">>, fPyDoc |-> FALSE ]

hdrNoProto ==
  [ szHdr |-> << <<"J","u","s","t"," ","a"," ","n","o","t","e">> >>,
    szNear |-> <<"i","n","t"," ","x",";">>, fPyDoc |-> FALSE ]

hdrSyntax ==
  [ szHdr |-> << <<"@","d","e","f","g","r","o","u","p">>, <<"L","o","s","t"," ","t","e","x","t">> >>,
    szNear |-> << >>, fPyDoc |-> FALSE ]

hdrFn ==
  [ szHdr |-> << <<"@","f","n"," ","i","n","t"," ","g","(","i","n","t"," ","y",")">>, <<"B","r","i","e","f",
      " ","g">> >>,
    szNear |-> << >>, fPyDoc |-> FALSE ]

hdrDefIndex ==
  [ szHdr |-> << <<"@","d","e","f","g","r","o","u","p"," ","I","n","d","e","x"," ","I">> >>,
    szNear |-> << >>, fPyDoc |-> FALSE ]

hdrDefbar ==
  [ szHdr |-> << <<"@","d","e","f","g","r","o","u","p"," ","b","a","r"," ","b">> >>,
    szNear |-> << >>, fPyDoc |-> FALSE ]

\* a function section followed by a module section in one comment
hdrSections ==
  [ szHdr |-> << <<"@","i","n","g","r","o","u","p"," ","F","o","o">>, <<"@","f","n"," ","i","n","t"," ","g",
      "(","i","n","t"," ","y",")">>, <<"B","r","i","e","f"," ","g">>, <<"@","p","a","r","a","m"," ","y"," ",
      "i","n">>, <<"N","o","t","e","s"," ","o","f"," ","g">>, <<"@","d","e","f","g","r","o","u","p"," ","Z",
      "e","d"," ","Z">>, <<"T","e","x","t"," ","o","f"," ","Z","e","d">>, <<"@","e","x","a","m","p","l","e",
      " ","T">>, << >>, <<" "," "," "," ","c","o","d","e">> >>,
    szNear |-> << >>, fPyDoc |-> FALSE ]

\* a function section whose @param line stands before the brief
hdrParamFirst ==
  [ szHdr |-> << <<"@","i","n","g","r","o","u","p"," ","F","o","o">>, <<"@","f","n"," ","i","n","t"," ","h",
      "(","i","n","t"," ","x",")">>, <<"@","p","a","r","a","m"," ","x"," ","i","n">>, <<"B","r","i","e","f",
      " ","h">> >>,
    szNear |-> << >>, fPyDoc |-> FALSE ]

\* a function section followed by a module section that holds a @param line
hdrOverrun ==
  [ szHdr |-> << <<"@","i","n","g","r","o","u","p"," ","F","o","o">>, <<"@","f","n"," ","i","n","t"," ","k",
      "(","v","o","i","d",")">>, <<"B","r","i","e","f"," ","k">>, <<"@","d","e","f","g","r","o","u","p"," ",
      "Z","e","d"," ","Z">>, <<"@","p","a","r","a","m"," ","z"," ","i","s"," ","l","o","n","g">> >>,
    szNear |-> << >>, fPyDoc |-> FALSE ]

\* a function section with a line of an unknown keyword
hdrUnknown ==
  [ szHdr |-> << <<"@","i","n","g","r","o","u","p"," ","F","o","o">>, <<"@","f","n"," ","i","n","t"," ","u",
      "(","i","n","t"," ","x",")">>, <<"B","r","i","e","f"," ","u">>, <<"@","p","a","r","a","m"," ","x"," ",
      "i","n">>, <<"@","n","o","t","e"," ","c","a","r","e","f","u","l">>, <<"N","o","t","e","s"," ","o","f",
      " ","u">> >>,
    szNear |-> << >>, fPyDoc |-> FALSE ]

\* a function of Foo whose notes hold an example
hdrStubExample ==
  [ szHdr |-> << <<"@","i","n","g","r","o","u","p"," ","F","o","o">>, <<"B","r","i","e","f"," ","s">>, <<"@",
      "e","x","a","m","p","l","e"," ","E">>, << >>, <<" "," "," "," ","c","o","d","e">> >>,
    szNear |-> <<"i","n","t"," ","s","(","v","o","i","d",")">>, fPyDoc |-> FALSE ]

\* the declaration of Foo, with an example
hdrDefFooExample ==
  [ szHdr |-> << <<"@","d","e","f","g","r","o","u","p"," ","F","o","o"," ","S","o","m","e"," ","t","e","x",
      "t">>, <<"B","o","d","y">>, <<"@","e","x","a","m","p","l","e"," ","N">>, << >>, <<" "," "," "," ","m",
      "o","r","e">> >>,
    szNear |-> << >>, fPyDoc |-> FALSE ]

SrcPaths == { <<"a",".","c">> }

OtherPaths == { <<"x",".","t","x","t">> }

mdGuide ==
  [ szPath |-> <<"d","o","c","s","/","f","o","o",".","m","d">>, szFile |-> << <<"#"," ","G","u","i","d",
      "e">>, <<"S","o","m","e"," ","w","o","r","d","s">> >> ]

mdMainPage ==
  [ szPath |-> <<"m","a","i","n",".","m","d">>, szFile |-> << <<"@","m","a","i","n","p","a","g","e"," ","P",
      "r","o","j">>, <<"F","r","o","m"," ","m","a","r","k","d","o","w","n">> >> ]

\* a document with a heading on the line after the code block of an example
mdZed ==
  [ szPath |-> <<"Z","e","d",".","m","d">>, szFile |-> << <<"I","n","t","r","o">>, <<"@","e","x","a","m","p",
      "l","e"," ","T">>, << >>, <<" "," "," "," ","c","o","d","e">>, <<"#","#"," ","A","f","t","e","r">>,
      <<"#","#"," ","L","a","t","e","r">> >> ]

\* a document with an @example line that has no title
mdNoTitle ==
  [ szPath |-> <<"e",".","m","d">>, szFile |-> << <<"#","#"," ","E">>, <<"@","e","x","a","m","p","l","e"," ",
      "O","n","e">>, << >>, <<" "," "," "," ","c","o","d","e">>, << >>, <<"@","e","x","a","m","p","l","e">>,
      <<"#","#"," ","L","o","s","t">> >> ]

\* The projects flydoc is run on: the doc comments its source files can hold and
\* its markdown files.
prjGrouping ==
  [ headers |-> { hdrInGroupFoo, hdrDefFoo, hdrDefFooAgain }, markdown |-> { } ]

prjNames ==
  [ headers |-> { hdrDefFoo, hdrClassFOO, hdrInClassFoo }, markdown |-> { mdGuide } ]

prjFunctions ==
  [ headers |-> { hdrDefFoo, hdrBare, hdrFn }, markdown |-> { } ]

prjErrors ==
  [ headers |-> { hdrExample, hdrSyntax, hdrNoProto }, markdown |-> { } ]

prjPages ==
  [ headers |-> { hdrMainPage, hdrMainPageAgain }, markdown |-> { mdGuide, mdMainPage } ]

prjSections ==
  [ headers |-> { hdrDefbar, hdrSections, hdrParamFirst }, markdown |-> { } ]

prjIndex ==
  [ headers |-> { hdrDefFoo, hdrDefIndex }, markdown |-> { } ]

prjOverrun ==
  [ headers |-> { hdrOverrun, hdrUnknown }, markdown |-> { } ]

prjDocs ==
  [ headers |-> { }, markdown |-> { mdGuide, mdZed, mdNoTitle } ]

prjStub ==
  [ headers |-> { hdrStubExample, hdrDefFooExample }, markdown |-> { } ]

Projects ==
  { prjGrouping, prjNames, prjFunctions, prjErrors, prjPages, prjSections, prjIndex, prjOverrun,
    prjDocs, prjStub }

\* the image file FlyDocPreProcess found in the input folder
szImageFile == <<"a",".","p","n","g">>


(***************************************************************************)
(* One pass of the while loop of FlyDocParseHdr, and the whole of it       *)
(***************************************************************************)
\* the switch on the section keyword k at line szLine
ParseHdrSection(d, szHdr, pHdr, szLine, szSectionEnd, k, pStack) ==
  IF k.keyword \in {"CLASS", "DEFGROUP"}
  THEN FlyDocParseModule(d, szHdr, szLine, szSectionEnd, k.keyword = "CLASS", pStack)
  ELSE IF k.keyword = "MAINPAGE" THEN FlyDocParseMainPage(d, szHdr, szLine, szSectionEnd)
  ELSE IF pHdr # NULL
  THEN FlyDocParseFunction(d, szHdr, szLine, szSectionEnd, Deref(pHdr),
                           Ptr(FlyStrToLineEnd(szHdr[szLine], k.arg)))
  ELSE d

\* The pass at line szLine of the header.  pHdr is NULL for a markdown file.
\* pStack is what the uninitialised local pMod of FlyDocParseModule holds.
ParseHdrStep(d, szHdr, pHdr, szLine, fFoundText, pStack) ==
  Let([k \in {FlyDocIsKeyword(szHdr[szLine])} |-> IF k.fIsKeyword /\ k.keyword \in {"INGROUP", "INCLASS"}
    THEN [d |-> FlyDocParseInGroup(d, szHdr[szLine]), szLine |-> szLine + 1,
          fFoundText |-> fFoundText]
    ELSE IF k.fIsKeyword /\ FlyDocIsSection(k.keyword)
    THEN Let([szSectionEnd \in {FlyDocSectionEnd(szHdr, szLine + 1)} |-> [d |->
         ParseHdrSection(d, szHdr, pHdr, szLine, szSectionEnd, k, pStack),
            szLine |-> szSectionEnd, fFoundText |-> FALSE]])
    ELSE [d |-> d, szLine |-> szLine + 1,
          fFoundText |-> fFoundText \/ ~FlyStrLineIsBlank(szHdr[szLine])]])

\* after the loop: a comment that holds text outside any section is a function
ParseHdrEnd(d, szHdr, pHdr, fFoundText) ==
  IF fFoundText /\ pHdr # NULL
  THEN FlyDocParseFunction(d, szHdr, 1, Len(szHdr) + 1, Deref(pHdr), NULL)
  ELSE d

RECURSIVE ParseHdrFrom(_, _, _, _, _, _)
ParseHdrFrom(d, szHdr, pHdr, szLine, fFoundText, pStack) ==
  IF d.fault THEN d
  ELSE IF szLine > Len(szHdr) THEN ParseHdrEnd(d, szHdr, pHdr, fFoundText)
  ELSE Let([s \in {ParseHdrStep(d, szHdr, pHdr, szLine, fFoundText, pStack)} |->
       ParseHdrFrom(s.d, szHdr, pHdr, s.szLine, s.fFoundText, pStack)])

\* FlyDocParseHdr from its first line to its return
FlyDocParseHdr(d, szHdr, pHdr, pStack) ==
  ParseHdrFrom([d EXCEPT !.nDocComments = @ + 1], szHdr, pHdr, 1, FALSE, pStack)

(***************************************************************************)
(* The program                                                             *)
(***************************************************************************)
\* files given on the command line, and doc comments in them, that are parsed
MaxFiles == 3

MaxHdrs == 3

VARIABLES
  project,      \* the files flydoc is run on
  doc,          \* the flyDoc_t
  pc,           \* "main": main has called FlyDocInit; "idle": between files;
                \* "src": in the loop of FlyDocParseSrcFile; "hdr": in the loop
                \* of FlyDocParseHdr; "exit": main has returned
  szPath,       \* pDoc->szPath
  szHdr,        \* the header FlyDocParseHdr is working on
  pHdr,         \* its flyStrHdr_t, NULL for a markdown file
  szLine,       \* the line FlyDocParseHdr is at
  fFoundText,   \* the local of FlyDocParseHdr
  out,          \* what the run has created of its output: the folder, the files
  status,       \* the exit status of the process, NULL while it runs
  call          \* a call of one function by itself: its arguments and, once it
                \* has returned, its results; NULL in a run of the program

vars == << project, doc, pc, szPath, szHdr, pHdr, szLine, fFoundText, out, status, call >>

\* the options of a run: -s or -s-, and "-n", "-o out/" or neither of them (szOut
\* is NULL without -o)
flyDocOpts_t ==
  { [fSort |-> fSort, fNoBuild |-> o[1], szOut |-> o[2]] :
      fSort \in BOOLEAN, o \in { << TRUE, NULL >>, << FALSE, Ptr(<<"o","u","t","/">>) >>,
          << FALSE, NULL >> } }

\* the flyDoc_t after FlyDocInit, with the image file that FlyDocPreProcess finds
flyDoc(opts) ==
  [ fSort |-> opts.fSort, fNoBuild |-> opts.fNoBuild, szOut |-> opts.szOut, pCurMod |-> NULL, pMainPage |->
      NULL, pModList |-> << >>,
    pClassList |-> << >>, pMarkdownList |-> << >>, pImageList |-> << >>,
    pImgFileList |-> << [szPath |-> szImageFile, fReferenced |-> FALSE] >>,
    nFiles |-> 0, nDocComments |-> 0, nWarnings |-> 0,
    stderr |-> [w \in Warnings |-> 0], heap |-> 1, fault |-> FALSE ]

Init ==
  /\ project \in Projects
  /\ doc \in { flyDoc(opts) : opts \in flyDocOpts_t }
  /\ pc = "main"
  /\ szPath = << >>
  /\ szHdr = << >>
  /\ pHdr = NULL
  /\ szLine = 1
  /\ fFoundText = FALSE
  /\ out = { }
  /\ status = NULL
  /\ call = NULL

\* what no step of the parser changes
Running == UNCHANGED << project, out, status, call >>

NoHdr == Running /\ szHdr' = << >> /\ pHdr' = NULL /\ szLine' = 1 /\ fFoundText' = FALSE

\* the flyStrHdr_t of a doc comment of the file szPath
StrHdr(h) == [szNear |-> h.szNear, fPyDoc |-> h.fPyDoc, szLang |-> FlyStrPathLang(szPath)]

\* what the uninitialised pMod can hold: NULL or any module or class
StackValues(d) == { NULL } \cup { Ptr(m.id) : m \in Range(AllMods(d)) }

\* faulty variant of ParseFileReset: the current module of the file before stays
ParseFileNoReset(d) == d

\* FlyDocParseFile before the file type is looked at: no current module
ParseFileReset(d) == [d EXCEPT !.pCurMod = NULL]

\* FlyDocParseFile on a file whose extension is not known: it is ignored
ParseFileNone ==
  /\ pc = "idle" /\ ~doc.fault
  /\ \E path \in OtherPaths :
       /\ ~FlyStrPathHasExt(path, szExts) /\ ~FlyStrPathHasExt(path, m_szMarkdownExts)
       /\ doc' = ParseFileReset(doc)
       /\ szPath' = << >>
  /\ pc' = "idle"
  /\ NoHdr

\* FlyDocParseFile on a source file, up to the loop of FlyDocParseSrcFile
ParseFileSrc ==
  /\ pc = "idle" /\ ~doc.fault /\ doc.nFiles < MaxFiles
  /\ \E path \in SrcPaths :
       /\ FlyStrPathHasExt(path, szExts)
       /\ doc' = [ParseFileReset(doc) EXCEPT !.nFiles = @ + 1]
       /\ szPath' = path
  /\ pc' = "src"
  /\ NoHdr

\* FlyStrHdrFind found the next doc comment: FlyDocParseHdr is entered
SrcHdrFind ==
  /\ pc = "src" /\ ~doc.fault /\ doc.nDocComments < MaxHdrs
  /\ \E h \in project.headers :
       /\ szHdr' = h.szHdr
       /\ pHdr' = Ptr(StrHdr(h))
  /\ doc' = [doc EXCEPT !.nDocComments = @ + 1]
  /\ pc' = "hdr"
  /\ szLine' = 1
  /\ fFoundText' = FALSE
  /\ Running /\ UNCHANGED szPath

\* FlyStrHdrFind found no more doc comments: FlyDocParseFile returns
SrcFileEnd ==
  /\ pc = "src" /\ ~doc.fault
  /\ pc' = "idle"
  /\ szPath' = << >>
  /\ NoHdr
  /\ UNCHANGED doc

\* faulty variant of IsDocComment: every markdown file is a document
IsDocument(szFile) == FALSE

\* the test FlyDocParseMarkdownFile starts with: the first line of the file is a
\* section keyword line
IsDocComment(szFile) == IsSectionLine(szFile[1])

\* FlyDocParseFile on the markdown file f, d being the flyDoc_t once the file is
\* read.  A file that starts with a section keyword is handed to FlyDocParseHdr
\* as a doc comment, any other is a document.
MarkdownFile(d, f, pStack, fNullOk) ==
  IF Len(f.szFile) = 0
  THEN /\ doc' = FlyDocPrintWarning(d, "szWarningReadFile")
       /\ pc' = "idle" /\ szPath' = << >> /\ NoHdr
  ELSE IF IsDocComment(f.szFile)
  THEN /\ doc.nDocComments < MaxHdrs
       /\ doc' = [d EXCEPT !.nDocComments = @ + 1]
       /\ pc' = "hdr" /\ szPath' = f.szPath
       /\ szHdr' = f.szFile /\ pHdr' = NULL /\ szLine' = 1 /\ fFoundText' = FALSE
       /\ Running
  ELSE /\ doc' = FlyDocParseMarkdownFile(d, f.szPath, f.szFile, pStack, fNullOk)
       /\ pc' = "idle" /\ szPath' = << >> /\ NoHdr

\* FlyDocParseFile on a markdown file.  pStack is what the uninitialised local
\* pExample of FlyDocParseMarkdownFile holds.
ParseFileMarkdown ==
  /\ pc = "idle" /\ ~doc.fault /\ doc.nFiles < MaxFiles
  /\ \E f \in project.markdown, pStack \in {NULL, Ptr([szTitle |-> << >>])}, fNullOk \in BOOLEAN :
       /\ ~FlyStrPathHasExt(f.szPath, szExts) /\ FlyStrPathHasExt(f.szPath, m_szMarkdownExts)
       /\ MarkdownFile([ParseFileReset(doc) EXCEPT !.nFiles = @ + 1], f, pStack, fNullOk)

\* the current line of the header, when FlyDocParseHdr is in its loop
AtLine == pc = "hdr" /\ ~doc.fault /\ szLine <= Len(szHdr)

AtKeyword(keywords) ==
  /\ AtLine
  /\ Let([k \in {FlyDocIsKeyword(szHdr[szLine])} |-> k.fIsKeyword /\ k.keyword \in keywords])

HdrPass(pStack) ==
  /\ \E s \in { ParseHdrStep(doc, szHdr, pHdr, szLine, fFoundText, pStack) } :
       /\ doc' = s.d
       /\ szLine' = s.szLine
       /\ fFoundText' = s.fFoundText
  /\ Running /\ UNCHANGED << pc, szPath, szHdr, pHdr >>

\* an @ingroup or @inclass line
HdrInGroup == AtKeyword({"INGROUP", "INCLASS"}) /\ HdrPass(NULL)

\* a @defgroup or @class section
HdrModule ==
  /\ AtKeyword({"DEFGROUP", "CLASS"})
  /\ \E pStack \in StackValues(doc) : HdrPass(pStack)

\* a @fn section
HdrFn == AtKeyword({"FN"}) /\ HdrPass(NULL)

\* a @mainpage section
HdrMainPage == AtKeyword({"MAINPAGE"}) /\ HdrPass(NULL)

\* any other line: text, a blank line, another keyword
HdrText ==
  /\ AtLine
  /\ ~AtKeyword({"INGROUP", "INCLASS", "DEFGROUP", "CLASS", "FN", "MAINPAGE"})
  /\ HdrPass(NULL)

\* the loop is over: the bare function comment, then back to the caller
HdrEnd ==
  /\ pc = "hdr" /\ ~doc.fault /\ szLine > Len(szHdr)
  /\ doc' = ParseHdrEnd(doc, szHdr, pHdr, fFoundText)
  /\ pc' = IF pHdr # NULL THEN "src" ELSE "idle"
  /\ szPath' = IF pHdr # NULL THEN szPath ELSE << >>
  /\ NoHdr

RECURSIVE Sum(_, _)
\* the sum of the numbers from the i-th on
Sum(counts, i) == IF i > Len(counts) THEN 0 ELSE counts[i] + Sum(counts, i + 1)

\* the examples of all modules, classes and documents, and of the main page
FlyDocExampleCountAll(d) ==
  Let([pList \in {d.pModList \o d.pClassList \o d.pMarkdownList \o d.pMainPage} |->
    Sum([i \in 1..Len(pList) |-> Len(pList[i].section.pExampleList)], 1)])

\* the statistics fields that FlyDocStatsUpdate computes from the lists
FlyDocStatsUpdate(d) ==
  [ nModules |-> Len(d.pModList),
    nFunctions |-> Sum([i \in 1..Len(d.pModList) |-> Len(d.pModList[i].pFuncList)], 1),
    nClasses |-> Len(d.pClassList),
    nMethods |-> Sum([i \in 1..Len(d.pClassList) |-> Len(d.pClassList[i].pFuncList)], 1),
    nExamples |-> FlyDocExampleCountAll(d),
    nDocuments |-> Len(d.pMarkdownList) ]

\* faulty variant of FlyDocNumObjects: the main page is not counted
NumObjectsNoMainPage(d) ==
  Let([n \in {FlyDocStatsUpdate(d)} |->
    n.nModules + n.nFunctions + n.nClasses + n.nMethods + n.nExamples + n.nDocuments])

\* FlyDocNumObjects, called by main after FlyDocStatsUpdate
FlyDocNumObjects(d) ==
  Let([n \in {FlyDocStatsUpdate(d)} |->
    (IF d.pMainPage # NULL THEN 1 ELSE 0) + n.nModules + n.nFunctions + n.nClasses + n.nMethods
      + n.nExamples + n.nDocuments])

\* FlyDocWriteHtml / FlyDocWriteMarkdown: the folder is created, then the files;
\* either can fail, with a warning, and nothing is written after a failure
FlyDocWrite(d, fFolder, fFiles) ==
  IF ~fFolder THEN [d |-> FlyDocPrintWarning(d, "szWarningCreateFolder"), out |-> { }]
  ELSE IF ~fFiles THEN [d |-> FlyDocPrintWarning(d, "szWarningCreateFile"), out |-> { "folder" }]
  ELSE [d |-> d, out |-> { "folder", "files" }]

\* what the file system lets the run create: all, the folder only, nothing
FileSystems == { << TRUE, TRUE >>, << TRUE, FALSE >>, << FALSE, FALSE >> }

\* faulty variant of ExitStatus: the run is taken to have worked
ExitWorked(d) == 0

\* what main returns: 1 when there was a warning
ExitStatus(d) == IF d.nWarnings # 0 THEN 1 ELSE 0

Exit(d) ==
  /\ doc' = d
  /\ status' = Ptr(ExitStatus(d))
  /\ pc' = "exit"
  /\ UNCHANGED << project, szPath, szHdr, pHdr, szLine, fFoundText, call >>

\* main after FlyDocInit: a build needs an output folder
MainNoOutput ==
  /\ pc = "main" /\ ~doc.fNoBuild /\ doc.szOut = NULL
  /\ status' = Ptr(1)
  /\ pc' = "exit"
  /\ UNCHANGED << project, doc, szPath, szHdr, pHdr, szLine, fFoundText, out, call >>

\* main goes on to the loop over its arguments
MainParse ==
  /\ pc = "main" /\ (doc.fNoBuild \/ doc.szOut # NULL)
  /\ pc' = "idle"
  /\ UNCHANGED << doc, szPath >>
  /\ NoHdr

\* main after the loop over its arguments, nothing having been found
MainNoObjects ==
  /\ pc = "idle" /\ ~doc.fault /\ FlyDocNumObjects(doc) = 0
  /\ Exit(FlyDocPrintWarning(doc, "szWarningNoObjects"))
  /\ UNCHANGED out

\* main after the loop over its arguments, run with -n
MainNoBuild ==
  /\ pc = "idle" /\ ~doc.fault /\ FlyDocNumObjects(doc) # 0 /\ doc.fNoBuild
  /\ Exit(doc)
  /\ UNCHANGED out

\* main after the loop over its arguments: the output is written
MainBuild ==
  /\ pc = "idle" /\ ~doc.fault /\ FlyDocNumObjects(doc) # 0 /\ ~doc.fNoBuild
  /\ \E fs \in FileSystems :
       /\ Exit(FlyDocWrite(doc, fs[1], fs[2]).d)
       /\ out' = FlyDocWrite(doc, fs[1], fs[2]).out

Next ==
  \/ MainNoOutput
  \/ MainParse
  \/ MainNoObjects
  \/ MainNoBuild
  \/ MainBuild
  \/ ParseFileNone
  \/ ParseFileSrc
  \/ SrcHdrFind
  \/ SrcFileEnd
  \/ ParseFileMarkdown
  \/ HdrInGroup
  \/ HdrModule
  \/ HdrFn
  \/ HdrMainPage
  \/ HdrText
  \/ HdrEnd

Spec == Init /\ [][Next]_vars

(***************************************************************************)
(* FlyDocIsKeyword called by itself on a line                              *)
(***************************************************************************)
\* first words of the lines: the keywords of the table and other words
KeywordWords == Range(aszKeywords) \cup { <<"@">>, <<"@","r","e","t","u","r">>, <<"@","C","l","a","s","s">>,
    <<"@","n","o","t","e">>, <<"f","n">>, <<" ","@","f","n">> }

\* what follows the first word
KeywordTails == { << >>, <<" ","x">>, << "\t", "x" >>, <<"x">>, <<"s">>, <<"s"," ","x">>, <<" "," ","F","o",
    "o"," ","b","a","r">> }

KeywordLines == { w \o t : w \in KeywordWords, t \in KeywordTails }

\* the program is not running
NoRun ==
  /\ project = prjGrouping /\ doc = flyDoc(CHOOSE opts \in flyDocOpts_t : TRUE)
  /\ pc = "call" /\ szPath = << >> /\ szHdr = << >> /\ pHdr = NULL /\ szLine = 1
  /\ fFoundText = FALSE /\ out = { } /\ status = NULL

KeywordInit ==
  /\ NoRun
  /\ call \in { [szLine |-> line, return |-> NULL] : line \in KeywordLines }

\* the call returns: return is the record of the return value and *pKeyword
KeywordCall ==
  /\ pc = "call" /\ call.return = NULL
  /\ call' = [call EXCEPT !.return = Ptr(FlyDocIsKeyword(call.szLine))]
  /\ UNCHANGED << project, doc, pc, szPath, szHdr, pHdr, szLine, fFoundText, out, status >>

KeywordNext == KeywordCall

KeywordSpec == KeywordInit /\ [][KeywordNext]_vars


(***************************************************************************)
(* FlyDocParseText called by itself on the text of a module                *)
(***************************************************************************)
\* lines of a text
MaxTextLines == 3

\* the lines the texts are made of
TextLines ==
  { << >>, <<"P","l","a","i","n"," ","t","e","x","t">>, <<"GRAVE","GRAVE","GRAVE">>, <<" "," "," "," ","c",
      "o","d","e">>, <<"@","v","e","r","s","i","o","n"," ","9">>,
    <<"@","c","o","l","o","r"," ","w","3","-","r","e","d"," ","w","3","-","w","h","i","t","e"," ","w","3","-",
        "b","l","a","c","k">>, <<"@","c","o","l","o","r"," ","w","3","-","b","l","u","e">>, <<"@","f","o","n",
        "t"," ","A","r","i","a","l"," ","T","i","m","e","s">>, <<"@","f","o","n","t"," ","M","o","n","o">>,
    <<"@","e","x","a","m","p","l","e"," ","T">>, <<"@","e","x","a","m","p","l","e">>, <<"@","n","o","t","e",
        " ","y">>, <<"@","p","a","r","a","m"," ","x"," ","i","n">>, <<"@","i","n","g","r","o","u","p"," ","F",
        "o","o">>,
    <<"@","d","e","f","g","r","o","u","p"," ","Z","e","d"," ","Z">>, <<"!","[","a","]","(","a",".","p","n",
        "g",")"," ","a","n","d"," ","!","[","b","]","(","x","/","b",".","p","n","g",")">>, <<"!","[","c","]",
        "(","c",".","p","n","g",")">>,
    <<"!","!","!","!","!","!","!","!"," ","!","[","a","]","(","a",".","p","n","g",")">> }

Texts == UNION { [1..n -> TextLines] : n \in 0..MaxTextLines }

\* the flyDoc_t when the text of module Foo is parsed
TextDoc == FlyDocParseInGroup(flyDoc(CHOOSE opts \in flyDocOpts_t : TRUE), <<"@","i","n","g","r","o","u","p",
    " ","F","o","o">>)

TextInit ==
  /\ project = prjGrouping /\ doc = TextDoc
  /\ pc = "call" /\ szPath = << >> /\ szHdr = << >> /\ pHdr = NULL /\ szLine = 1
  /\ fFoundText = FALSE /\ out = { } /\ status = NULL
  /\ call \in { [szStart |-> text, return |-> NULL] : text \in Texts }

\* the call returns: return is the returned szText
TextCall ==
  /\ pc = "call" /\ call.return = NULL
  /\ \E r \in { FlyDocParseText(doc, ModSection(Deref(doc.pCurMod)), call.szStart, 1,
                                Len(call.szStart) + 1) } :
       /\ doc' = r.d
       /\ call' = [call EXCEPT !.return = Ptr(r.szText)]
  /\ UNCHANGED << project, pc, szPath, szHdr, pHdr, szLine, fFoundText, out, status >>

TextNext == TextCall

TextSpec == TextInit /\ [][TextNext]_vars


(***************************************************************************)
(* Properties                                                              *)
(***************************************************************************)
\* FlyDocParseHdr on the doc comment h of the source file that is open
ParseHdrOf(d, h) == FlyDocParseHdr(d, h.szHdr, Ptr(StrHdr(h)), NULL)

Titles(pList) == [i \in 1..Len(pList) |-> pList[i].section.szTitle]

Ids(pList) == [i \in 1..Len(pList) |-> pList[i].id]

\* title, subtitle and prose of the modules, in list order
ModView(d) ==
  [i \in 1..Len(d.pModList) |->
     [szTitle |-> d.pModList[i].section.szTitle, szSubtitle |-> d.pModList[i].section.szSubtitle,
      szText |-> d.pModList[i].section.szText]]

\* the entities of the three lists, by title and identity (identities are given
\* out in the order of creation)
Entities(d) ==
  [n \in 1..3 |-> Let([pList \in {<< d.pModList, d.pClassList, d.pMarkdownList >>[n]} |->
     [i \in 1..Len(pList) |-> << pList[i].section.szTitle, pList[i].id >>]])]

Duplicates(d) == d.stderr["szWarningDuplicate"]

NoModules(d) == d.stderr["szWarningNoModule"]

szFoo == <<"F","o","o">>

szBar == <<"B","a","r">>

\* C1: in a source file, while there is no module Foo, "@ingroup Foo" makes a stub
\* module titled Foo; "@defgroup Foo Some text" after it fills in that same
\* module and adds none; the two comments in the other order give a module list
\* with the same modules having the same titles, subtitles and prose.
C1_ForwardReference ==
  (pc = "src" /\ ~doc.fault /\ FlyDocModInList(doc.pModList, szFoo) = NULL) =>
    Let([a \in {ParseHdrOf(doc, hdrInGroupFoo)} |->
      Let([ab \in {ParseHdrOf(a, hdrDefFoo)} |->
      Let([ba \in {ParseHdrOf(ParseHdrOf(doc, hdrDefFoo), hdrInGroupFoo)} |->
        /\ Len(a.pModList) = Len(doc.pModList) + 1
        /\ FlyDocModInList(a.pModList, szFoo) = Ptr(doc.heap)
        /\ IsStub(ModAt(a, doc.heap))
        /\ Ids(ab.pModList) = Ids(a.pModList)
        /\ ModAt(ab, doc.heap).section.szTitle = szFoo
        /\ ModAt(ab, doc.heap).section.szSubtitle = Ptr(<<"S","o","m","e"," ","t","e","x","t">>)
        /\ ModView(ab) = ModView(ba)])])])

\* "@ingroup Foo" and "@defgroup Foo Some text" were parsed, each once: one module
\* Foo with the subtitle, the prose and the function of the @ingroup comment
C1_Witness ==
  /\ project = prjGrouping /\ pc = "src" /\ doc.nDocComments = 2 /\ doc.nWarnings = 0
  /\ ModView(doc) = << [szTitle |-> szFoo, szSubtitle |-> Ptr(<<"S","o","m","e"," ","t","e","x","t">>),
                        szText |-> Ptr(<< <<"B","o","d","y"," ","o","f"," ","F","o","o">> >>)] >>
  /\ Len(doc.pModList[1].pFuncList) = 1

NoTwoTitled(pList) ==
  \A i, j \in 1..Len(pList) : pList[i].section.szTitle = pList[j].section.szTitle => i = j

\* a reference by szKeyword to any entity of the list makes it the current module
\* and changes nothing else
ReferenceOnly(d, pList, szKeyword) ==
  \A i \in 1..Len(pList) :
    FlyDocParseInGroup(d, szKeyword \o pList[i].section.szTitle) = [d EXCEPT !.pCurMod = Ptr(pList[i].id)]

\* C2: the module list never holds two modules with the same title, nor the class
\* list two classes; "@ingroup Name" ("@inclass Name") for a Name that is in the
\* module (class) list creates nothing and makes that entity the current module.
C2_GroupingIdempotent ==
  /\ NoTwoTitled(doc.pModList)
  /\ NoTwoTitled(doc.pClassList)
  /\ ReferenceOnly(doc, doc.pModList, <<"@","i","n","g","r","o","u","p"," ">>)
  /\ ReferenceOnly(doc, doc.pClassList, <<"@","i","n","c","l","a","s","s"," ">>)

\* the comment with "@ingroup Foo" was parsed twice: still one module Foo, with
\* both functions
C2_Witness ==
  /\ project = prjGrouping /\ Titles(doc.pModList) = << szFoo >>
  /\ Len(doc.pModList[1].pFuncList) = 2

\* the entity of the matching list that the @defgroup / @class line names, or NULL
Declared(d, line) ==
  Let([nd \in {FlyDocGetNameDescription(line)} |->
    Let([szCName \in {IF nd.fPatternMatched THEN FlyDocCNameAlloc(line, nd.szName) ELSE NULL} |->
      IF szCName = NULL THEN NULL
      ELSE FlyDocModInList(IF FlyDocIsKeyword(line).keyword = "CLASS" THEN d.pClassList ELSE d.pModList,
                           Deref(szCName))])])

\* the @defgroup / @class section at szLine names an entity that is not a stub
AtDeclaredAgain ==
  /\ AtKeyword({"DEFGROUP", "CLASS"})
  /\ Let([pMod \in {Declared(doc, szHdr[szLine])} |-> pMod # NULL /\ ~IsStub(ModAt(doc, Deref(pMod)))])

\* C3: a @defgroup / @class section naming an entity of the matching list that is
\* not a stub emits one "duplicate" warning and is aborted: no entity is created
\* and no field of the existing entities changes.
C3_DuplicateAborts ==
  [][AtDeclaredAgain =>
       /\ Duplicates(doc') = Duplicates(doc) + 1
       /\ doc'.pModList = doc.pModList
       /\ doc'.pClassList = doc.pClassList]_vars

\* C4: there is one main page pointer, NULL or the main page; a @mainpage section
\* parsed when there is a main page emits one "duplicate" warning and leaves the
\* main page, with all its fields, as it is.
C4_MainPageSingleton ==
  [][(AtKeyword({"MAINPAGE"}) /\ doc.pMainPage # NULL) =>
       /\ doc'.pMainPage = doc.pMainPage
       /\ Duplicates(doc') = Duplicates(doc) + 1
       /\ doc'.nWarnings = doc.nWarnings + 1]_vars

\* the two @mainpage comments were parsed: the main page of the first, one warning
C4_Witness ==
  /\ project = prjPages /\ doc.nDocComments = 2 /\ doc.pMarkdownList = << >>
  /\ doc.pMainPage # NULL /\ Duplicates(doc) = 1
  /\ Deref(doc.pMainPage).section.szSubtitle = Ptr(<<"S","u","b"," ","t","i","t","l","e">>)

\* the example list of the module with this title, empty when there is none
ModExamples(d, szTitle) ==
  Let([pMod \in {FlyDocModInList(d.pModList, szTitle)} |->
    IF pMod = NULL THEN << >> ELSE ModAt(d, Deref(pMod)).section.pExampleList])

\* C5: the section "@defgroup Bar B" whose text holds "@example Title", a blank
\* line and a line that is no code block emits one "empty content" warning and
\* appends one example titled "Example: Title" to the examples of Bar.
C5_ExampleNoContent ==
  [][(pc = "hdr" /\ ~doc.fault /\ szHdr = hdrExample.szHdr /\ szLine = 1) =>
       /\ doc'.stderr["szWarningEmpty"] = doc.stderr["szWarningEmpty"] + 1
       /\ ModExamples(doc', szBar) = ModExamples(doc, szBar) \o << [szTitle |-> <<"E","x","a","m","p","l","e",
           ":"," ","T","i","t","l","e">>] >>]_vars

\* the comment was parsed once: one warning, one example
C5_Witness ==
  /\ project = prjErrors /\ doc.stderr["szWarningEmpty"] = 1 /\ doc.nWarnings = 1
  /\ ModExamples(doc, szBar) = << [szTitle |-> <<"E","x","a","m","p","l","e",":"," ","T","i","t","l","e">>] >>

\* C6: module Foo made first, then the markdown document foo.md, then class FOO:
\* no "duplicate" warning for the first, one for the second, one for the third,
\* and each is put into its own list.
C6_DupCheckAdvisory ==
  [][/\ (pc = "hdr" /\ ~doc.fault /\ szLine = 1 /\ szHdr = hdrDefFoo.szHdr /\ doc.heap = 1) =>
          /\ Duplicates(doc') = Duplicates(doc)
          /\ Entities(doc') = << << << szFoo, 1 >> >>, << >>, << >> >>
     /\ (pc = "idle" /\ ~doc.fault /\ doc.heap = 2 /\ doc'.heap = 3
           /\ Entities(doc) = << << << szFoo, 1 >> >>, << >>, << >> >>) =>
          /\ Duplicates(doc') = Duplicates(doc) + 1
          /\ Entities(doc') = << << << szFoo, 1 >> >>, << >>, << << <<"f","o","o",".","m","d">>, 2 >> >> >>
     /\ (pc = "hdr" /\ ~doc.fault /\ szLine = 1 /\ szHdr = hdrClassFOO.szHdr /\ doc.heap = 3
           /\ Entities(doc) = << << << szFoo, 1 >> >>, << >>, << << <<"f","o","o",".","m",
               "d">>, 2 >> >> >>) =>
          /\ Duplicates(doc') = Duplicates(doc) + 1
          /\ Entities(doc') = << << << szFoo, 1 >> >>, << << <<"F","O","O">>, 3 >> >>, << << <<"f","o","o",
              ".","m","d">>, 2 >> >> >>]_vars

\* the three were made in this order, with two warnings
C6_Witness ==
  /\ project = prjNames /\ doc.nWarnings = 2 /\ Duplicates(doc) = 2
  /\ Entities(doc) = << << << szFoo, 1 >> >>, << << <<"F","O","O">>, 3 >> >>, << << <<"f","o","o",".","m",
      "d">>, 2 >> >> >>

\* the titles are equal once cut at the extension and with case ignored
SameName(szTitle1, szTitle2) == strcasecmp(CutExt(szTitle1), CutExt(szTitle2)) = 0

\* modules, classes and markdown documents
Pages(d) == d.pModList \o d.pClassList \o d.pMarkdownList

\* C7: whenever a step adds a module, class or markdown document whose title,
\* cut at the extension and with case ignored, is that of an entity that was in
\* one of the three lists, a "duplicate" warning is emitted.
C7_NamespaceWarned ==
  [][\A i \in 1..Len(Pages(doc')) :
       (/\ \A j \in 1..Len(Pages(doc)) : Pages(doc)[j].id # Pages(doc')[i].id
        /\ \E j \in 1..Len(Pages(doc)) :
             SameName(Pages(doc)[j].section.szTitle, Pages(doc')[i].section.szTitle))
       => Duplicates(doc') > Duplicates(doc)]_vars

NoKeywords(text) == \A i \in 1..Len(text) : ~FlyDocIsKeyword(text[i]).fIsKeyword

\* FlyDocParseHdr is at the end of a comment without keywords that holds text
AtBareEnd ==
  /\ pc = "hdr" /\ ~doc.fault /\ szLine > Len(szHdr)
  /\ fFoundText /\ pHdr # NULL /\ NoKeywords(szHdr)

\* the line next to the comment holds a function prototype
HasPrototype(hdr) ==
  FlyStrFnProtoLen(FlyStrToLineEnd(hdr.szNear, FlyStrSkipWhite(hdr.szNear, 1))).protoLen > 0

FuncCount(d, pMod) == Len(ModAt(d, Deref(pMod)).pFuncList)

\* C8: every file starts with no current module; between the comments of a file
\* and on the lines of a comment that are no keyword lines the current module
\* stays; so a comment without keywords is dropped with a "no module" warning when
\* its file has set none (whatever the files before did), and gives its function
\* to the current module otherwise.
C8_CurrentModule ==
  [][/\ (pc = "idle" /\ pc' # "exit") => doc'.pCurMod = NULL
     /\ pc = "src" => doc'.pCurMod = doc.pCurMod
     /\ (AtLine /\ ~FlyDocIsKeyword(szHdr[szLine]).fIsKeyword) => doc'.pCurMod = doc.pCurMod
     /\ (AtBareEnd /\ doc.pCurMod = NULL) =>
          /\ NoModules(doc') = NoModules(doc) + 1
          /\ doc'.pModList = doc.pModList /\ doc'.pClassList = doc.pClassList
     /\ (AtBareEnd /\ doc.pCurMod # NULL /\ HasPrototype(Deref(pHdr))) =>
          /\ doc'.pCurMod = doc.pCurMod
          /\ FuncCount(doc', doc.pCurMod) = FuncCount(doc, doc.pCurMod) + 1]_vars

\* in the second file, whose first comment has no keywords: module Foo is of the
\* first file, and there is no current module
C8_Witness ==
  /\ project = prjFunctions /\ AtBareEnd /\ doc.nFiles = 2 /\ doc.nDocComments = 2
  /\ Titles(doc.pModList) = << szFoo >> /\ doc.pCurMod = NULL /\ doc.nWarnings = 0

\* FlyDocParseHdr is about to call FlyDocParseFunction: at a @fn section, or at
\* the end of a comment that holds text outside sections
AtFunction ==
  /\ pc = "hdr" /\ ~doc.fault /\ pHdr # NULL
  /\ (szLine > Len(szHdr) /\ fFoundText) \/ AtKeyword({"FN"})

\* the current module after the pre-scan of that function section
PreScanModule ==
  IF szLine > Len(szHdr) THEN FunctionPreScan(doc, szHdr, 1, Len(szHdr) + 1, NULL).d.pCurMod
  ELSE FunctionPreScan(doc, szHdr, szLine, FlyDocSectionEnd(szHdr, szLine + 1), NULL).d.pCurMod

\* C9: a function section after whose pre-scan there is no current module emits
\* one "no module" warning and makes no function: the lists of modules, classes
\* and documents and the main page, with all their fields, are unchanged.
C9_NoModule ==
  [][(AtFunction /\ PreScanModule = NULL) =>
       /\ NoModules(doc') = NoModules(doc) + 1
       /\ doc'.nWarnings = doc.nWarnings + 1
       /\ doc'.pModList = doc.pModList /\ doc'.pClassList = doc.pClassList
       /\ doc'.pMarkdownList = doc.pMarkdownList /\ doc'.pMainPage = doc.pMainPage]_vars

\* a function comment was parsed in a file without a module: one warning, nothing made
C9_Witness ==
  /\ project = prjFunctions /\ pc = "src" /\ doc.nDocComments = 1
  /\ NoModules(doc) = 1 /\ doc.nWarnings = 1 /\ Pages(doc) = << >>

\* the list without its i-th element
Without(pList, i) == SubSeq(pList, 1, i - 1) \o SubSeq(pList, i + 1, Len(pList))

\* C10: a comment without keywords that holds text, next to a function prototype,
\* parsed while there is a current module, adds one function to the function list
\* of that module and to no other; its brief is the first non-blank line of the
\* comment.
C10_BareFunction ==
  [][(AtBareEnd /\ doc.pCurMod # NULL /\ HasPrototype(Deref(pHdr))) =>
       /\ \E i \in 1..FuncCount(doc', doc.pCurMod) :
            /\ ModAt(doc', Deref(doc.pCurMod)).pFuncList[i].szBrief
                 = Ptr(szHdr[FlyStrLineSkipBlank(szHdr, 1)])
            /\ Without(ModAt(doc', Deref(doc.pCurMod)).pFuncList, i)
                 = ModAt(doc, Deref(doc.pCurMod)).pFuncList
       /\ Ids(AllMods(doc')) = Ids(AllMods(doc))
       /\ \A j \in 1..Len(AllMods(doc)) :
            AllMods(doc)[j].id # Deref(doc.pCurMod) => AllMods(doc')[j] = AllMods(doc)[j]]_vars

\* the comment "Computes area" was parsed after "@defgroup Foo": Foo has the
\* function area with that brief
C10_Witness ==
  /\ project = prjFunctions /\ pc = "src" /\ doc.nWarnings = 0
  /\ Titles(doc.pModList) = << szFoo >>
  /\ Len(doc.pModList[1].pFuncList) = 1
  /\ doc.pModList[1].pFuncList[1].szFunc = <<"a","r","e","a">>
  /\ doc.pModList[1].pFuncList[1].szBrief = Ptr(<<"C","o","m","p","u","t","e","s"," ","a","r","e","a">>)


\* the lines of the header from index i to j that open a section
SectionLines(text, i, j) == { n \in i..j : IsSectionLine(text[n]) }

\* one pass of the loop of FlyDocParseHdr goes on in the same header at a later
\* line and passes over no section-opening line but the one it is at, whose
\* section it consumes up to the next one
PassAdvances ==
  /\ pc' = "hdr" /\ szHdr' = szHdr /\ pHdr' = pHdr
  /\ szLine' > szLine /\ szLine' <= Len(szHdr) + 1
  /\ SectionLines(szHdr, szLine + 1, szLine' - 1) = { }
  /\ IsSectionLine(szHdr[szLine]) =>
       (szLine' = Len(szHdr) + 1 \/ IsSectionLine(szHdr[szLine']))

\* C11: every pass of the loop of FlyDocParseHdr, with or without a warning, leaves
\* the parser running: it goes on at a later line of the same header, skips no
\* section-opening line (each is dispatched once, in text order, and the loop
\* ends), and the end of a header gives control back to the file loop.
C11_FailuresLocal ==
  [][/\ AtLine => (PassAdvances /\ ~doc'.fault)
     /\ (pc = "hdr" /\ ~doc.fault /\ szLine > Len(szHdr)) => (pc' \in {"src", "idle"} /\ ~doc'.fault)]_vars

\* the @defgroup / @class line has no argument, or one that is no identifier
SyntaxError(line) ==
  Let([nd \in {FlyDocGetNameDescription(line)} |->
    ~nd.fPatternMatched \/ FlyDocCNameAlloc(line, nd.szName) = NULL])

AtSyntaxError == AtKeyword({"DEFGROUP", "CLASS"}) /\ SyntaxError(szHdr[szLine])

\* C12: a @defgroup / @class section whose argument is missing or is no identifier
\* emits one "syntax error" warning and nothing else: the lists of modules and
\* classes, with all fields of their entities, and the current module are as
\* before, and the parser goes on.
C12_SyntaxErrorLocal ==
  [][AtSyntaxError =>
       /\ doc'.stderr["szWarningSyntax"] = doc.stderr["szWarningSyntax"] + 1
       /\ doc'.nWarnings = doc.nWarnings + 1
       /\ doc'.pModList = doc.pModList /\ doc'.pClassList = doc.pClassList
       /\ doc'.pCurMod = doc.pCurMod
       /\ ~doc'.fault]_vars

\* the same with the parts that hold: one warning and no entity made
SyntaxErrorWarns ==
  [][(AtSyntaxError /\ ~doc'.fault) =>
       /\ doc'.stderr["szWarningSyntax"] = doc.stderr["szWarningSyntax"] + 1
       /\ Ids(AllMods(doc')) = Ids(AllMods(doc))]_vars

\* the loop of FlyDocParseHdr as such: what C11 says of the runs that do not fault
LoopAdvances ==
  [][(AtLine /\ ~doc'.fault) => PassAdvances]_vars

RECURSIVE Printed(_, _)
\* the warning lines on stderr, of the kinds S
Printed(d, S) ==
  IF S = { } THEN 0
  ELSE Let([w \in {CHOOSE w \in S : TRUE} |-> d.stderr[w] + Printed(d, S \ {w})])

\* main has returned
Returned == pc = "exit" /\ status # NULL

\* the command line was accepted: -n, or an output folder to build into
ArgsAccepted == doc.fNoBuild \/ doc.szOut # NULL

\* C13, as the specification states it: the warning counter is the number of
\* warnings printed and never decreases, and the exit status is 1 exactly when
\* the counter is not 0.
C13_ExitStatusOfAnyRun ==
  /\ [](doc.nWarnings = Printed(doc, Warnings))
  /\ [][doc'.nWarnings >= doc.nWarnings]_vars
  /\ [](Returned => (Deref(status) = 1 <=> doc.nWarnings > 0))

\* C13: the warning counter is the number of warnings printed and never
\* decreases; when main returns after the inputs were parsed, the exit status is
\* 1 exactly when the counter is not 0, whatever was written.  (A run whose
\* command line asks for a build and names no output folder exits with 1 and
\* without a warning.)
C13_ExitStatus ==
  /\ [](doc.nWarnings = Printed(doc, Warnings))
  /\ [][doc'.nWarnings >= doc.nWarnings]_vars
  /\ []((Returned /\ ArgsAccepted) => (Deref(status) = 1 <=> doc.nWarnings > 0))
  /\ []((Returned /\ ~ArgsAccepted) => (Deref(status) = 1 /\ doc.nWarnings = 0))

\* a run with two warnings printed while parsing that wrote its files and
\* returned 1
C13_Witness ==
  /\ Returned /\ Deref(status) = 1 /\ out = { "folder", "files" }
  /\ doc.nWarnings = 2 /\ Printed(doc, Warnings) = 2

\* main returns after the loop over its arguments
AtReturn == pc = "idle" /\ pc' = "exit"

\* C14, as the specification states it: a run that ends with no modules, classes,
\* functions and documents prints one "no objects" warning and writes nothing.
C14_NoPages ==
  [][(AtReturn /\ Pages(doc) = << >>) =>
       /\ doc'.stderr["szWarningNoObjects"] = 1
       /\ out' = { }]_vars

\* C14: a run that ends with no main page and no modules, classes, functions and
\* documents prints one "no objects" warning, which makes its exit status 1,
\* and writes nothing, with -n or without; any other run prints no such warning.
C14_NoObjects ==
  [][/\ (AtReturn /\ Pages(doc) = << >> /\ doc.pMainPage = NULL) =>
          /\ doc'.stderr["szWarningNoObjects"] = 1
          /\ doc'.nWarnings = doc.nWarnings + 1
          /\ out' = { } /\ status' = Ptr(1)
     /\ ~(Pages(doc) = << >> /\ doc.pMainPage = NULL) =>
          doc'.stderr["szWarningNoObjects"] = 0]_vars

\* a build into out/ was asked for, a comment was parsed and dropped, nothing was
\* written
C14_Witness ==
  /\ Returned /\ ~doc.fNoBuild /\ doc.szOut # NULL /\ doc.nDocComments = 1
  /\ doc.stderr["szWarningNoObjects"] = 1 /\ doc.nWarnings = 2 /\ out = { }

\* FlyDocParseHdr is in a markdown file
InMarkdownHdr == pc = "hdr" /\ pHdr = NULL

\* C15: a markdown file whose first line is a section keyword line is handed to
\* FlyDocParseHdr and makes no document: no document of the list starts with such
\* a line, and no step of FlyDocParseHdr changes the list of documents; the
\* "@mainpage Proj" line of such a file, there being no main page, makes the main
\* page Proj with the text of the file.
C15_MarkdownAsComment ==
  /\ [](\A i \in 1..Len(doc.pMarkdownList) : ~IsSectionLine(doc.pMarkdownList[i].szFile[1]))
  /\ [][/\ (pc = "idle" /\ pc' = "hdr") =>
             (InMarkdownHdr' /\ IsSectionLine(szHdr'[1]) /\ doc'.pMarkdownList = doc.pMarkdownList)
        /\ pc = "hdr" => doc'.pMarkdownList = doc.pMarkdownList
        /\ (InMarkdownHdr /\ szHdr = mdMainPage.szFile /\ szLine = 1 /\ doc.pMainPage = NULL) =>
             /\ doc'.pMainPage # NULL
             /\ Deref(doc'.pMainPage).section.szTitle = <<"P","r","o","j">>
             /\ Deref(doc'.pMainPage).section.szSubtitle = Ptr(<<"F","r","o","m"," ","m","a","r","k","d","o",
                 "w","n">>)]_vars

\* the file main.md was parsed after the document docs/foo.md: the main page is
\* of the file, the only document is foo.md
C15_Witness ==
  /\ project = prjPages /\ pc = "idle" /\ doc.nFiles = 2 /\ doc.nWarnings = 0
  /\ doc.pMainPage # NULL /\ Deref(doc.pMainPage).section.szTitle = <<"P","r","o","j">>
  /\ Titles(doc.pMarkdownList) = << <<"f","o","o",".","m","d">> >>

\* the names are in non-decreasing alphabetical order, case not counting
Sorted(names) == \A i \in 1..(Len(names) - 1) : strcasecmp(names[i], names[i + 1]) <= 0

FuncNames(pMod) == [i \in 1..Len(pMod.pFuncList) |-> pMod.pFuncList[i].szFunc]

\* list b is list a with elements added at its end
Appended(a, b) == Len(a) <= Len(b) /\ SubSeq(b, 1, Len(a)) = a

\* C16: with the sort flag on, the list of modules, the list of classes and the
\* function list of every module and class are always in non-decreasing
\* case-insensitive order of title / function name; with the flag off, every step
\* leaves each of these lists as it was or with new elements at its end.
C16_ListOrder ==
  /\ [](doc.fSort =>
          /\ Sorted(Titles(doc.pModList)) /\ Sorted(Titles(doc.pClassList))
          /\ \A i \in 1..Len(AllMods(doc)) : Sorted(FuncNames(AllMods(doc)[i])))
  /\ [][~doc.fSort =>
          /\ Appended(Ids(doc.pModList), Ids(doc'.pModList))
          /\ Appended(Ids(doc.pClassList), Ids(doc'.pClassList))
          /\ \A i \in 1..Len(AllMods(doc)) :
               Appended(FuncNames(AllMods(doc)[i]), FuncNames(ModAt(doc', AllMods(doc)[i].id)))]_vars

\* sorted: Foo with function h, then function g and Zed, then bar were found; bar,
\* the last made, is the first of the list, and g stands before h
C16_Witness ==
  /\ doc.fSort /\ project = prjSections /\ pc = "src"
  /\ Titles(doc.pModList) = << <<"b","a","r">>, szFoo, <<"Z","e","d">> >>
  /\ Ids(doc.pModList) = << 3, 1, 2 >>
  /\ FuncNames(doc.pModList[2]) = << <<"g">>, <<"h">> >>

\* the vocabulary: the tokens and the keywords they stand for
Vocabulary ==
  { << <<"@","c","l","a","s","s">>, "CLASS" >>, << <<"@","c","o","l","o","r">>, "COLOR" >>, << <<"@","d","e",
      "f","g","r","o","u","p">>, "DEFGROUP" >>,
    << <<"@","e","x","a","m","p","l","e">>, "EXAMPLE" >>, << <<"@","f","n">>, "FN" >>, << <<"@","f","o","n",
        "t">>, "FONT" >>,
    << <<"@","i","n","c","l","a","s","s">>, "INCLASS" >>, << <<"@","i","n","g","r","o","u",
        "p">>, "INGROUP" >>, << <<"@","l","o","g","o">>, "LOGO" >>,
    << <<"@","m","a","i","n","p","a","g","e">>, "MAINPAGE" >>, << <<"@","p","a","r","a","m">>, "PARAM" >>,
        << <<"@","r","e","t","u","r","n">>, "RETURN" >>,
    << <<"@","r","e","t","u","r","n","s">>, "RETURNS" >>, << <<"@","v","e","r","s","i","o",
        "n">>, "VERSION" >> }

\* the characters of the line up to its first white space
FirstWord(line) == SubSeq(line, 1, FlyStrArgLen(line, 1))

\* FlyDocIsKeyword has returned from a call on a line
Recognized == call # NULL /\ call.return # NULL

\* C17: FlyDocIsKeyword reports "not a keyword" exactly for the lines whose first
\* character is not '@'; for a line that starts with '@' it reports the keyword
\* of the vocabulary whose token is the first word of the line (the token followed
\* by white space or the end of the line), and "unknown" when the first word is
\* no token of the vocabulary.
C17_KeywordRecognizer ==
  Recognized =>
    Let([line \in {call.szLine} |-> Let([r \in {Deref(call.return)} |->
      /\ r.fIsKeyword <=> (Len(line) > 0 /\ line[1] = "@")
      /\ r.fIsKeyword =>
           /\ \A v \in Vocabulary : r.keyword = v[2] <=> FirstWord(line) = v[1]
           /\ r.keyword = "UNKNOWN" <=> \A v \in Vocabulary : FirstWord(line) # v[1]
           /\ r.arg = FlyStrArgNext(line, 1)])])

\* the call on "@returns x" has returned @returns, and x as the argument
C17_Witness ==
  /\ Recognized /\ call.szLine = <<"@","r","e","t","u","r","n","s"," ","x">>
  /\ Deref(call.return) = [fIsKeyword |-> TRUE, keyword |-> "RETURNS", arg |-> 10]

\* the pages of d' that the step has made and whose title is "index", case and
\* extension not counting
NewIndexPages ==
  { i \in 1..Len(Pages(doc')) :
      /\ \A j \in 1..Len(Pages(doc)) : Pages(doc)[j].id # Pages(doc')[i].id
      /\ SameName(Pages(doc')[i].section.szTitle, szIndex) }

\* C18: a step that makes a module, class or document titled "index" emits a
\* "duplicate" warning when there is a main page or when, the new page counted,
\* there is more than one page, and emits none otherwise.
C18_IndexReserved ==
  [][(~doc'.fault /\ NewIndexPages # { }) =>
       (Duplicates(doc') > Duplicates(doc) <=> (doc.pMainPage # NULL \/ Len(Pages(doc')) > 1))]_vars

\* what the code does: the warning is emitted when there is a main page or when
\* there are more than one page without the new one
IndexWarnedLate ==
  [][(~doc'.fault /\ NewIndexPages # { }) =>
       (Duplicates(doc') > Duplicates(doc) <=> (doc.pMainPage # NULL \/ Len(Pages(doc)) > 1))]_vars

\* the function list of the module or class with this identity, empty when there
\* is none
FuncsOf(d, id) ==
  IF \E m \in Range(AllMods(d)) : m.id = id THEN ModAt(d, id).pFuncList ELSE << >>

\* the functions that the step has added to a function list
NewFuncs ==
  { f \in UNION { Range(m.pFuncList) : m \in Range(AllMods(doc')) } :
      \E m \in Range(AllMods(doc')) : \E i \in 1..Len(m.pFuncList) :
        m.pFuncList[i] = f /\ Without(m.pFuncList, i) = FuncsOf(doc, m.id) }

\* the @example lines among the lines i to j of the text
ExampleLines(text, i, j) ==
  { n \in i..j : FlyDocIsKeyword(text[n]).fIsKeyword /\ FlyDocIsKeyword(text[n]).keyword = "EXAMPLE" }

\* FlyDocParseHdr, in a comment of a source file, is at a section keyword line
AtSection == AtLine /\ pHdr # NULL /\ IsSectionLine(szHdr[szLine])

\* C19: the parser of a section reads the lines of its section only, which end
\* before the next section keyword line: the notes of the function it makes are
\* lines of the section, and it makes one example for every @example line of the
\* section and none for the @example lines of other sections (which their own
\* parser makes).
C19_OwnSection ==
  [][(AtSection /\ ~doc'.fault) =>
       /\ \A f \in NewFuncs : f.szText # NULL =>
            \A k \in 1..Len(Deref(f.szText)) :
              Deref(f.szText)[k] \in Range(SubSeq(szHdr, szLine, szLine' - 1)) \cup { << >> }
       /\ FlyDocExampleCountAll(doc') - FlyDocExampleCountAll(doc)
            = Cardinality(ExampleLines(szHdr, szLine, szLine' - 1))]_vars

\* the line holds text
NotEmpty(line) == line # << >>

\* the lines of a prototype block after the signature line, the empty ones left out
ProtoBlockLines(szPrototype) == SelectSeq(Tail(szPrototype), NotEmpty)

\* C20: the prototype block of the function made from an @fn section is the
\* signature and then exactly the @param / @return / @returns / unknown keyword
\* lines of that section, in their order, each padded for a line break: none of
\* them is left out, wherever it stands, and no line of a later section is there.
C20_PrototypeBlock ==
  [][(AtSection /\ AtKeyword({"FN"}) /\ ~doc'.fault) =>
       \A f \in NewFuncs :
         ProtoBlockLines(f.szPrototype)
           = Let([lines \in {ProtoLines(szHdr, szLine, szLine')} |->
                  [i \in 1..Len(lines) |-> FlyDocExtraLineCopy(lines[i])]])]_vars


\* C21: FlyDocParseFunction never writes more into the prototype block than the
\* sizeProto it has computed for it: the parse of an @fn section does not fail
\* the assertion on the bytes written, whatever sections follow in the header.
C21_ProtoFits ==
  [][(AtSection /\ AtKeyword({"FN"})) => ~doc'.fault]_vars

\* FlyDocParseText has returned
TextReturned == pc = "call" /\ call.return # NULL /\ "szStart" \in DOMAIN call

\* the section of module Foo, whose text is parsed
TextSection(d) == SectionAt(d, ModSection(1))

\* the line i of the text is inside a fenced code block
InFence(text, i) ==
  ~IsFence(text[i]) /\ Cardinality({ j \in 1..(i - 1) : IsFence(text[j]) }) % 2 = 1

\* the line does not start with '@'
Masked(line) == << "|" >> \o line

\* the text with the keyword lines inside fenced code blocks made plain lines
FencedMasked(text) ==
  [i \in 1..Len(text) |->
     IF InFence(text, i) /\ FlyDocIsKeyword(text[i]).fIsKeyword THEN Masked(text[i]) ELSE text[i]]

\* the lines as they were before Masked
Unmasked(pText) ==
  IF pText = NULL THEN NULL
  ELSE Ptr([i \in 1..Len(Deref(pText)) |->
             IF Deref(pText)[i] # << >> /\ Head(Deref(pText)[i]) = "|" THEN Tail(Deref(pText)[i])
             ELSE Deref(pText)[i]])

\* C22: a keyword line inside a fenced code block is inert in FlyDocParseText:
\* the section gets the style fields and the examples it would get if the line
\* were a plain line of code, and the line stays in the returned text.
C22_FencedInert ==
  TextReturned =>
    Let([r \in {FlyDocParseText(TextDoc, ModSection(1), FencedMasked(call.szStart), 1,
                                Len(call.szStart) + 1)} |->
         /\ TextSection(doc) = TextSection(r.d)
         /\ Deref(call.return) = Unmasked(r.szText)])

\* the lines of the section that FlyDocParseHdr is at which stand after the brief
\* of the function and are lines of one of the keywords
LinesAfterBrief(keywords) ==
  Let([pre \in {FunctionPreScan(doc, szHdr, szLine, szLine', NULL)} |->
       { szHdr[i] : i \in { j \in szLine..(szLine' - 1) :
                              /\ pre.szBrief # NULL /\ j > Deref(pre.szBrief)
                              /\ FlyDocIsKeyword(szHdr[j]).fIsKeyword
                              /\ FlyDocIsKeyword(szHdr[j]).keyword \in keywords } }])

\* the lines of the notes of a function
NotesOf(f) == IF f.szText = NULL THEN { } ELSE Range(Deref(f.szText))

\* C23: a line of an unknown keyword is stripped like a @param or @return line:
\* when it stands in a function section (after the brief) it is copied into the
\* prototype block of the function, and it is not in the notes of the function.
C23_UnknownStripped ==
  [][(AtSection /\ AtKeyword({"FN"}) /\ ~doc'.fault) =>
       \A f \in NewFuncs :
         \A line \in LinesAfterBrief({"PARAM", "RETURN", "RETURNS", "UNKNOWN"}) :
           /\ FlyDocExtraLineCopy(line) \in Range(f.szPrototype)
           /\ line \notin NotesOf(f)]_vars

\* the @param and @return lines are stripped so, and the lines of unknown
\* keywords are copied into the prototype block
ProtoLinesStripped ==
  [][(AtSection /\ AtKeyword({"FN"}) /\ ~doc'.fault) =>
       \A f \in NewFuncs :
         /\ \A line \in LinesAfterBrief({"PARAM", "RETURN", "RETURNS", "UNKNOWN"}) :
              FlyDocExtraLineCopy(line) \in Range(f.szPrototype)
         /\ \A line \in LinesAfterBrief({"PARAM", "RETURN", "RETURNS"}) :
              line \notin NotesOf(f)]_vars

\* a line that is no keyword line, or an @example line, or a line of an unknown
\* keyword
IsKept(line) ==
  \/ ~FlyDocIsKeyword(line).fIsKeyword
  \/ FlyDocIsKeyword(line).keyword \in {"EXAMPLE", "UNKNOWN"}

\* the lines that are not blank
NonBlank(text) == { i \in 1..Len(text) : ~FlyStrLineIsBlank(text[i]) }

\* the text from its first to its last line that is not blank
BlankTrimmed(text) ==
  IF NonBlank(text) = { } THEN << >>
  ELSE SubSeq(text, CHOOSE i \in NonBlank(text) : \A j \in NonBlank(text) : i <= j,
                    CHOOSE i \in NonBlank(text) : \A j \in NonBlank(text) : i >= j)

StyleOf(section) ==
  << section.szBarColor, section.szTitleColor, section.szHeadingColor, section.szFontBody,
     section.szFontHeadings, section.szLogo, section.szVersion >>

\* the line i of the text is a style keyword line that is followed by a line of
\* the same keyword
IsEarlier(text, i) ==
  /\ FlyDocIsKeyword(text[i]).fIsKeyword
  /\ FlyDocIsKeyword(text[i]).keyword \in {"COLOR", "FONT", "LOGO", "VERSION"}
  /\ \E j \in (i + 1)..Len(text) :
       /\ FlyDocIsKeyword(text[j]).fIsKeyword
       /\ FlyDocIsKeyword(text[j]).keyword = FlyDocIsKeyword(text[i]).keyword

\* the text with blank lines for the style keyword lines that are followed by a
\* line of the same keyword
LastOnly(text) == [i \in 1..Len(text) |-> IF IsEarlier(text, i) THEN << >> ELSE text[i]]

\* C25: when a style keyword is given more than once in a span the last line
\* wins: the style fields of the section are those that the last line of each
\* keyword gives by itself, and nothing of an earlier line is kept.
C25_LastWins ==
  TextReturned =>
    StyleOf(TextSection(doc))
      = StyleOf(TextSection(FlyDocParseText(TextDoc, ModSection(1), LastOnly(call.szStart), 1,
                                            Len(call.szStart) + 1).d))

\* the first argument of the last line wins
LastFirstArgWins ==
  TextReturned =>
    Let([s \in {TextSection(FlyDocParseText(TextDoc, ModSection(1), LastOnly(call.szStart), 1,
                                            Len(call.szStart) + 1).d)} |->
         /\ TextSection(doc).szBarColor = s.szBarColor
         /\ TextSection(doc).szFontBody = s.szFontBody
         /\ TextSection(doc).szVersion = s.szVersion
         /\ TextSection(doc).szLogo = s.szLogo])

\* the line i of the text is a line of a code block
IsCodeLine(text, i) == IsFence(text[i]) \/ InFence(text, i) \/ IsIndented(text[i])

RECURSIVE LinksFrom(_, _)
\* the links of the image references of the line from column p on, in their order
LinksFrom(line, p) ==
  IF p > Len(line) THEN << >>
  ELSE IF FlyMd2HtmlIsImage(line, p)
  THEN << FlyMdAltLink(line, p).szLink >> \o LinksFrom(line, FlyMdAltLink(line, p).after)
  ELSE LinksFrom(line, p + 1)

RECURSIVE ProseLinks(_, _)
\* the links of the image references of the text from line i on that are not in
\* code blocks or keyword lines
ProseLinks(text, i) ==
  IF i > Len(text) THEN << >>
  ELSE (IF IsCodeLine(text, i) \/ FlyDocIsKeyword(text[i]).fIsKeyword THEN << >>
        ELSE LinksFrom(text[i], 1)) \o ProseLinks(text, i + 1)

\* the links of the image references in the returned text
ReturnedLinks ==
  IF Deref(call.return) = NULL THEN << >> ELSE ProseLinks(Deref(Deref(call.return)), 1)

\* the link has no path and names no input image file
IsMissing(szLink) ==
  /\ ~FlyDocImageHasPath(szLink)
  /\ \A f \in Range(TextDoc.pImgFileList) : FlyStrPathNameOnly(f.szPath) # szLink

\* C26: every image reference of the returned text that is not in a code block
\* or a keyword line is appended to pImageList, once for each time it occurs and
\* however many a line holds; a link without a path marks the input image file
\* of that name as referenced, or is warned of once when there is no such file;
\* a link with a path is not warned of and marks nothing.
C26_Images ==
  TextReturned =>
    /\ doc.pImageList = [i \in 1..Len(ReturnedLinks) |-> [szLink |-> ReturnedLinks[i]]]
    /\ doc.stderr["szWarningNoImage"]
         = Cardinality({ i \in 1..Len(ReturnedLinks) : IsMissing(ReturnedLinks[i]) })
    /\ \A n \in 1..Len(doc.pImgFileList) :
         doc.pImgFileList[n].fReferenced
           <=> \E i \in 1..Len(ReturnedLinks) :
                 /\ ~FlyDocImageHasPath(ReturnedLinks[i])
                 /\ ReturnedLinks[i] = FlyStrPathNameOnly(doc.pImgFileList[n].szPath)

\* the same holds of the texts no line of which holds more than eight '!'
ImagesOfEight ==
  (TextReturned /\ \A i \in 1..Len(call.szStart) :
                     Cardinality({ p \in 1..Len(call.szStart[i]) : call.szStart[i][p] = "!" }) <= 8)
    => C26_Images

\* the level of the heading that the line is, 0 when it is no heading
HeadingLevel(line) == IF FlyMd2HtmlIsHeading(line) THEN HashRun(line, 1) ELSE 0

\* the lines of the file that are headings of level 2 to 6 outside fenced code
\* blocks
IsOutlineLine(szFile, i) == HeadingLevel(szFile[i]) \in 2..6 /\ ~InFence(szFile, i)

RECURSIVE Outline(_, _)
\* the texts of those headings from line i on
Outline(szFile, i) ==
  IF i > Len(szFile) THEN << >>
  ELSE (IF IsOutlineLine(szFile, i) THEN << FlyMd2HtmlHeadingText(szFile[i]) >> ELSE << >>)
         \o Outline(szFile, i + 1)

\* the titles of the pHdrList of a document
HdrTitles(pMarkdown) == [i \in 1..Len(pMarkdown.pHdrList) |-> pMarkdown.pHdrList[i].szTitle]

\* C27: the pHdrList of a markdown document holds the headings of level 2 to 6 of
\* the file that are outside fenced code blocks, in their order, the heading on
\* the line after the code block of an example among them, and nothing else.
\* The subtitle is the first heading.
C27_Outline ==
  ~doc.fault =>
    \A m \in Range(doc.pMarkdownList) :
      /\ HdrTitles(m) = Outline(m.szFile, 1)
      /\ Outline(m.szFile, 1) # << >> => m.section.szSubtitle = Ptr(Outline(m.szFile, 1)[1])

\* C28: with the sort flag on, the list of markdown documents is always in
\* non-decreasing alphabetical order of title, case not counting, as the lists of
\* modules and classes are.
C28_DocsSorted == doc.fSort => Sorted(Titles(doc.pMarkdownList))

\* the list is in the order of strcmp, which tells the cases apart
DocsSortedByCase ==
  doc.fSort =>
    \A i \in 1..(Len(doc.pMarkdownList) - 1) :
      strcmp(doc.pMarkdownList[i].section.szTitle, doc.pMarkdownList[i + 1].section.szTitle) <= 0

\* the line is an @example line, with a title or without one
IsExampleLine(line, fTitle) ==
  /\ FlyDocIsKeyword(line).fIsKeyword /\ FlyDocIsKeyword(line).keyword = "EXAMPLE"
  /\ fTitle <=> ~FlyStrLineIsBlank(FlyStrToLineEnd(line, FlyDocIsKeyword(line).arg))

IsTitled(line) == IsExampleLine(line, TRUE)

\* the titles of the examples that the @example lines of the text give
TitledExamples(text) ==
  Let([lines \in {SelectSeq(text, IsTitled)} |->
       [i \in 1..Len(lines) |->
          FlyDocExampleNew(lines[i], FlyDocIsKeyword(lines[i]).arg).szTitle]])

\* the titles of the examples of a list
ExampleTitles(pExampleList) == [i \in 1..Len(pExampleList) |-> pExampleList[i].szTitle]

\* C29: an @example line without a title is warned of and makes no example: the
\* examples of a markdown document are those of its @example lines that have a
\* title, each once, and the lines after an @example line without a title are
\* parsed: the headings among them are in the pHdrList.
C29_NoTitle ==
  ~doc.fault =>
    \A m \in Range(doc.pMarkdownList) :
      /\ ExampleTitles(m.section.pExampleList) = TitledExamples(m.szFile)
      /\ \A i \in 1..Len(m.szFile) : \A j \in (i + 1)..Len(m.szFile) :
           (IsExampleLine(m.szFile[i], FALSE) /\ IsOutlineLine(m.szFile, j))
             => FlyMd2HtmlHeadingText(m.szFile[j]) \in Range(HdrTitles(m))

\* in a text without code blocks FlyDocParseText does so: the examples of the
\* section are those of the @example lines that have a title, and there is one
\* syntax warning for each that has none
NoTitleInText ==
  (TextReturned /\ \A i \in 1..Len(call.szStart) : ~FlyMd2HtmlIsCodeBlk(call.szStart[i])) =>
    /\ ExampleTitles(TextSection(doc).pExampleList) = TitledExamples(call.szStart)
    /\ doc.stderr["szWarningSyntax"]
         = Cardinality({ i \in 1..Len(call.szStart) : IsExampleLine(call.szStart[i], FALSE) })

\* the @defgroup / @class section at szLine names an entity that is a stub
AtStubDeclared ==
  /\ AtKeyword({"DEFGROUP", "CLASS"})
  /\ Let([pMod \in {Declared(doc, szHdr[szLine])} |-> pMod # NULL /\ IsStub(ModAt(doc, Deref(pMod)))])

\* C30: a @defgroup / @class section that names a stub completes it in place: no
\* entity is made or moved, the stub keeps its identity, its title, its functions
\* in their order and its examples in their order, to which the examples of the
\* section are appended; it gets its subtitle, and every other entity is left as
\* it was.
C30_StubCompleted ==
  [][AtStubDeclared =>
       Let([id \in {Deref(Declared(doc, szHdr[szLine]))} |->
            /\ Ids(doc'.pModList) = Ids(doc.pModList)
            /\ Ids(doc'.pClassList) = Ids(doc.pClassList)
            /\ ModAt(doc', id).section.szTitle = ModAt(doc, id).section.szTitle
            /\ ModAt(doc', id).section.szSubtitle # NULL
            /\ ModAt(doc', id).pFuncList = ModAt(doc, id).pFuncList
            /\ Appended(ModAt(doc, id).section.pExampleList, ModAt(doc', id).section.pExampleList)
            /\ \A m \in Range(AllMods(doc)) : m.id # id => ModAt(doc', m.id) = m])]_vars

\* the stub Foo had function s and example E when it was declared; it has them
\* still, and the example N of the declaration after E
C30_Witness ==
  /\ project = prjStub /\ pc = "hdr" /\ Ids(doc.pModList) = << 1 >>
  /\ doc.pModList[1].section.szSubtitle = Ptr(<<"S","o","m","e"," ","t","e","x","t">>)
  /\ FuncNames(doc.pModList[1]) = << <<"s">> >>
  /\ ExampleTitles(doc.pModList[1].section.pExampleList) = << <<"E","x","a","m","p","l","e",":"," ","E">>,
      <<"E","x","a","m","p","l","e",":"," ","N">> >>

====
